---- MODULE Spec2Model ----
(***************************************************************************)
(* A model of the indexing-and-retrieval core of esg_engine: the FAISS     *)
(* index helpers (utils/vector_utils.py), the standards indexers, the      *)
(* concurrent query dispatchers, the folder watchers, the ChromaDB corpus  *)
(* indexer (o2/esg_system/build_database.py) and the o3 index loaders.     *)
(* Each subsystem has its own specification over the shared variables; the *)
(* variables of the other subsystems stay at their idle values.            *)
(***************************************************************************)
EXTENDS Integers, Sequences, FiniteSets, TLC

\* ------------------------------------------------------------------ bounds
NumFiles == 2        \* source files in a watched / indexed directory
MaxUnits == 2        \* text units (sentences, paragraphs) one source yields
MaxCriteria == 3     \* criteria of one dispatch
MaxHalfGB == 11      \* sampled available memory, in units of 0.5 GB
MaxBatches == 2      \* batches of 20 candidates one sub_agent sends to OpenAI
MaxEvents == 2       \* filesystem events queued at one time
NumStandards == 1     \* files in standards_paths of the DatabaseBuilder
UpdateInterval == 2  \* settings["monitoring"]["update_interval"], in sleeps of the loop
MaxEntries == 2      \* vectors held by a searched index
MaxCoord == 2        \* vectors and queries are points 0..MaxCoord of a line
MaxTopK == 3         \* the largest k a search is called with
NumCategories == 2   \* categories of state.base_criteria, one base_brain each
MaxVersions == 3     \* contents a standards file has over time
MaxDocuments == 2    \* documents one process of o3 main works through
MaxCands == 2        \* sentences or pages one criterion is scored against

Files == 1..NumFiles
Standards == 1..NumStandards
Criteria == 1..MaxCriteria

VARIABLES
    \* ---- utils/vector_utils.py and rag/standards_rag/indexer.py
    corpus,        \* file -> number of sentences its PDF yields
    index,         \* the in-memory faiss index: sequence of vectors
    indexFile,     \* index.faiss on disk: [exists, vecs]
    metadataFile,  \* metadata.pkl on disk: [exists, recs]
    all_metadata,  \* index_standards' accumulator
    todo,          \* files index_standards has still to visit (listing order)
    ixpc,          \* "off" | "idle" | "loop" | "done" | "raised": index_standards
    last,          \* the operation that ran last
    ixkind,        \* which indexer runs: "root" (rag/standards_rag) | "o1"
                   \* (o1/rag/standards_rag) | "parser" (rag/requirements_rag)
    call,          \* parse_requirements' last call of add_to_index: whether the
                   \* argument lengths differed, and the two files at entry
    textCache,     \* o1: whether texts_cache.pkl exists
    all_texts,     \* o1: the sources whose raw texts the run has gathered
    success,       \* o1: index_standards' return value
    ixfaulty,      \* the current run of index_standards met an error
    ixprev,        \* the run before the latest: [complete, count]
    \* ---- the dispatchers: concurrent_extract, search_report, base_brain
    dkind,         \* which dispatcher this run is
    nCriteria,     \* N: the dispatch is over the criteria 1..N
    workers,       \* max_workers of the thread pool
    future,        \* criterion -> its task: [st, matches, failed]
    collected,     \* criteria whose future.result() the collector has taken
    results,       \* the dispatcher's result list, in collection order
    dpc,           \* where the dispatcher is
    page_texts,    \* o1: the report_page_texts argument is a non-empty dict
    report_cache,  \* o1: <report>_texts.pkl, "missing" | "partial" | "complete"
    rows,          \* root execute_workflow: the rows compiled for results.json
    sample,        \* monitor_resources' answer for this dispatch: "none" (not
                   \* taken) | "compliant" | "exceeded", or "taken" where the
                   \* sample is not compared with a floor
    \* ---- utils/file_monitor.py, the updaters and o3's StandardsManager
    fsEvents,      \* watchdog events for PDFs queued for the observer thread
    obspc,         \* the observer thread: "idle" | "index_standards"
    pollpc,        \* monitor_folder's loop: "sleep" | "scan" | "index_standards"
    scanLeft,      \* files the running poll scan has still to pass to the callback
    elapsed,       \* current_time - last_check, in sleeps of the loop
    searchpc,      \* a search thread: "idle" | "search_standards"
    o3last,        \* the coroutine the o3 event loop ran last
    \* ---- o2/esg_system/build_database.py
    o2units,       \* standards file -> paragraphs split_standards_pdf yields
    collection,    \* file -> its ChromaDB collection: [exists, docs: the ids held]
    hashCache,     \* file -> <collection>_hash.pkl: "none" | "current" | "stale"
    o2pc,          \* initialize_database: "off" | "idle" | "loop" | "returned" | "raised"
    o2todo,        \* standards_paths still to visit
    collections,   \* the keys of the run's collections dict
    proc,          \* what the run did with the file it visited last
    failed,        \* the files nothing of which was indexed when last processed
    faulty,        \* the current run met an error
    prev,          \* the run before the latest: [complete, count]
    changed,       \* a standards file was rewritten since the latest run began
    \* ---- o3/config.py and o3/utils/standards_manager.py: loading the index
    loader,        \* "config" (module import) | "standards_manager" (initialize)
    indexOnDisk,   \* the index file: [exists, parseable, d, ntotal]
    metadataOnDisk, \* StandardsManager: whether metadata.json exists
    faiss_index,   \* the index in memory: [loaded, d, ntotal]
    lpc,           \* "off" | "start" | "init_done" | "loaded" | "raised", then
                   \* "processed" | "failed" (super_brain) and "monitoring" | "rebuilt" |
                   \* "rebuild_raised" (StandardsManager.monitor)
    indexBefore,   \* the index file as it was before loading began
    state_sentences, \* super_brain: len(state.sentences) of the document processed last
    monitor_tasks, \* the StandardsManager.monitor tasks created and not ended
    documents,     \* the documents super_brain was called for in this process
    \* ---- o3/services: the OpenAI retry loops of one criterion or classifier
    rkind,         \* the coroutine: "sub_agent" | "validator_agent" | "classify" |
                   \* "sector_classify" ("none": not modelled)
    rpc,           \* "off" | "start" | "call" | "sleep" | "break" | "returned" |
                   \* "recorded" | "raised"
    attempt,       \* the loop variable of for attempt in range(3)
    batches,       \* sub_agent: batches of candidates still to send, the current included
    attempts,      \* the attempts of the current OpenAI call: TRUE where it succeeded
    delays,        \* the asyncio.sleep arguments since the current call began
    found_info,    \* sub_agent's found_info: which kinds of line it holds
    result,        \* the dict returned last: [by, found_info, verified_result]
    exhausted,     \* every attempt of an embedding or OpenAI call of the criterion failed
    \* ---- agents/monitoring/file_watcher.py, the updaters, utils/file_monitor.py
    mkind,         \* the copy of the code: "root" | "o1" ("none": not modelled)
    mentry,        \* the function started: "watch_files" | "update_standards" |
                   \* "monitor_folder"
    mpc,           \* "off" | "start" | "running"
    mobs,          \* directory -> its observer thread: "none" | "idle" | "callback" |
                   \* "blocked" (inside a callback that does not return)
    mpoll,         \* directory -> monitor_folder's polling loop: "none" | "sleep" |
                   \* "scan" | "blocked"
    mlast,         \* directory -> current_time - last_check of its loop, in seconds
    mscan,         \* directory -> files the running scan has still to visit
    mqueue,        \* directory -> files with an event in the observer's queue
    owed,          \* directory -> files changed and not passed to the callback since
    waited,        \* directory -> file -> seconds since its owed change got no event
    \* ---- rag/standards_rag/updater.py
    newPdf,        \* the PDF added to data/standards while update_standards runs (0: none)
    \* ---- search_index, search_standards and StandardsManager.query
    searcher,      \* the function called: "search_index" | "search_standards" |
                   \* "query" ("none": not modelled)
    entries,       \* the searched index: its file, holding one point per vector
    sidecar,       \* the metadata file: one record per line, named by its position
    query_embedding, \* the point the query text embeds to
    top_k,         \* the k of the call
    search_results, \* the list returned: [record, distance] each
    spc,           \* "off" | "start" | "returned" | "raised"
    \* ---- the scorers: o1 extract_data, o1 validate_data, o3 sub_agent
    ranker,        \* the function called ("none": not modelled)
    pool,          \* the pages or sentences scored, in index order: what each
                   \* holds with respect to the criterion
    dpool,         \* extract_data: the same pages with respect to the description
                   \* (<<>>: no description was passed)
    rag_results,   \* what the index search returned: positions in pool
    standards_cache, \* validate_data: the standards_cache argument is given
    standards_texts, \* validate_data: the standards texts are given or cached
    entry_raises,  \* validate_data: scoring a standards_cache entry raises
    matches,       \* the list returned: [id, score] each
    kpc,           \* "off" | "start" | "returned"
    \* ---- what a criterion's result says: root extract_data, retry_extraction,
    \* ---- and o3's sub_agent, validator_agent and generate_report
    okind,         \* the code that yields the results ("none": not modelled)
    searches,      \* criterion -> what each search made for it did, in order:
                   \* "matches" | "no_match" | "failed" | "not_run"
    yielded,       \* criterion -> the result yielded for it (NoEntry: none yet)
    not_relevant,  \* o3: the criteria marked not relevant to the report type
    \* ---- the report index: index_report, search_report, clean_report_index
    reports_dir,   \* the index and metadata files present in data/reports
    indexed,       \* what index_report returned last ("none": not called)
    searched,      \* what search_report did last: "none" | "no_index" |
                   \* "refused" | "searched"
    cleaned,       \* what clean_report_index returned last ("none": not called)
    rlast,         \* the function of the three that ran last
    \* ---- agents/superbrain/workflow.py (root and o1) and o1/main.py
    wkind,         \* the copy of execute_workflow: "root" | "o1" ("none": not modelled)
    wfpc,          \* "off" | "caller" | "start" | "loop" | "returned" | "raised" |
                   \* "done"
    requirements,  \* the requirements the workflow was given (a count)
    results_json,  \* results.json: "absent" | "stale" (of an earlier run) |
                   \* "partial" | "written" (by this run, complete)
    wf_results,    \* execute_workflow: the results compiled so far (a count)
    wf_success,    \* what execute_workflow returned: "none" (nothing yet) |
                   \* "True" | "False" | "None"
    run_workflow,  \* what o1's run_workflow returned ("none": nothing yet)
    temp_files,    \* root: the temporary report index files in data/reports
    wf_initialized, \* root: initialize_system has returned the agents
    \* ---- o3/main.py, base_brain and the OpenAI semaphores of the two agents
    brain,         \* category -> its base_brain task: "off" | "sub_agents" |
                   \* "validators" | "returned"
    agent,         \* category -> criterion -> the agent task of the running
                   \* phase: "none" | "pending" | "request" | "sleeping" | "done"
    \* ---- o2 build_database.py: one standards file, its collection, its hash
    pdf,           \* the content the standards file has now (a version number)
    chroma,        \* the collection: [exists, docs: paragraph id -> the content
                   \* version its entry was produced from (0: no entry)]
    hash_pkl,      \* <collection>_hash.pkl: the version whose hash it holds (0: no file)
    sections,      \* the content split_standards_pdf read in the running pass
    hpc,           \* the pass of initialize_database over the file: "idle" |
                   \* "split" | "embed" | "cache"
    houtcome,      \* how the last pass ended: "none" | "reused" | "indexed" | "raised"
    OPENAI_SEMAPHORE \* module ("sub_agent" | "validator_agent") -> the value of
                   \* its asyncio.Semaphore

ixvars == <<corpus, index, indexFile, metadataFile, all_metadata, todo, ixpc, last,
           ixkind, textCache, all_texts, success, ixfaulty, ixprev, call>>

dvars == <<dkind, nCriteria, workers, future, collected, results, dpc, sample,
           page_texts, report_cache, rows>>

wvars == <<fsEvents, obspc, pollpc, scanLeft, elapsed, searchpc, o3last>>

o2vars == <<o2units, collection, hashCache, o2pc, o2todo, collections, proc,
           failed, faulty, prev, changed>>

lvars == <<loader, indexOnDisk, metadataOnDisk, faiss_index, lpc, indexBefore,
          state_sentences, monitor_tasks, documents>>

rvars == <<rkind, rpc, attempt, batches, attempts, delays, found_info, result, exhausted>>

mvars == <<mkind, mentry, mpc, mobs, mpoll, mlast, mscan, mqueue, owed, waited>>

uvars == <<newPdf>>

svars == <<searcher, entries, sidecar, query_embedding, top_k, search_results, spc>>

\* The query side: searching, ranking and reporting.
kvars == <<ranker, pool, dpool, rag_results, standards_cache, standards_texts,
          entry_raises, matches, kpc>>

ovars == <<okind, searches, yielded, not_relevant>>

pvars == <<reports_dir, indexed, searched, cleaned, rlast>>

fvars == <<wkind, wfpc, requirements, wf_results, results_json, wf_success, run_workflow,
          temp_files, wf_initialized>>

bvars == <<brain, agent, OPENAI_SEMAPHORE>>

hvars == <<pdf, chroma, hash_pkl, sections, hpc, houtcome>>

\* The subsystems of the o3 run and of resource use.
xvars == <<bvars, hvars>>

qvars == <<svars, kvars, ovars, pvars, fvars, xvars>>

vars == <<ixvars, dvars, wvars, o2vars, lvars, rvars, mvars, uvars, qvars>>

\* What the actions of one subsystem leave alone: the other subsystems.
ixOthers == <<dvars, wvars, o2vars, lvars, rvars, mvars, uvars, qvars>>
dOthers == <<ixvars, wvars, o2vars, lvars, rvars, mvars, uvars, qvars>>
wOthers == <<ixvars, dvars, o2vars, lvars, rvars, mvars, uvars, qvars>>
o2Others == <<ixvars, dvars, wvars, lvars, rvars, mvars, uvars, qvars>>
lOthers == <<ixvars, dvars, wvars, o2vars, rvars, mvars, uvars, qvars>>
rOthers == <<ixvars, dvars, wvars, o2vars, lvars, mvars, uvars, qvars>>
mOthers == <<ixvars, dvars, wvars, o2vars, lvars, rvars, uvars, qvars>>
uOthers == <<dvars, wvars, o2vars, lvars, rvars, mvars, qvars>>
sOthers == <<ixvars, dvars, wvars, o2vars, lvars, rvars, mvars, uvars, kvars, ovars, pvars, fvars, xvars>>
kOthers == <<ixvars, dvars, wvars, o2vars, lvars, rvars, mvars, uvars, svars, ovars, pvars, fvars, xvars>>
oOthers == <<ixvars, dvars, wvars, o2vars, lvars, rvars, mvars, uvars, svars, kvars, pvars, fvars, xvars>>
pOthers == <<ixvars, dvars, wvars, o2vars, lvars, rvars, mvars, uvars, svars, kvars, ovars, fvars, xvars>>
fOthers == <<ixvars, dvars, wvars, o2vars, lvars, rvars, mvars, uvars, svars, kvars, ovars, pvars, xvars>>
bOthers == <<ixvars, dvars, wvars, o2vars, lvars, rvars, mvars, uvars, svars, kvars, ovars, pvars, fvars, hvars>>
hOthers == <<ixvars, dvars, wvars, o2vars, lvars, rvars, mvars, uvars, svars, kvars, ovars, pvars, fvars, bvars>>

\* ------------------------------------------------------- vector_utils.py

\* A sentence of a source file, the vector embedded from it and the metadata
\* record built from it: the vector and the record of one sentence carry the
\* same unit, which is what "supplied together" means.
Unit(f, i) == <<f, i>>
Units(f, n) == [i \in 1..n |-> Unit(f, i)]
Embedding(u) == [unit |-> u]
Record(u) == [document_name |-> u[1], sentence_index |-> u[2], unit |-> u]

SeqMap(Op(_), s) == [i \in 1..Len(s) |-> Op(s[i])]

\* The sum of g over S.
RECURSIVE SumOver(_, _)
SumOver(S, g) ==
    IF S = {} THEN 0
    ELSE LET x == CHOOSE y \in S : TRUE IN g[x] + SumOver(S \ {x}, g)

NoFile == [exists |-> FALSE, content |-> <<>>]
FileOf(c) == [exists |-> TRUE, content |-> c]

\* Where a call of add_to_index may raise: nowhere, in index.add, in
\* faiss.write_index, or in opening / pickling the metadata sidecar.
AddFailures == {"none", "add", "write_index", "dump"}

\* initialize_index: a fresh empty IndexFlatL2, written to index_path.
initialize_index == [index |-> <<>>, indexFile |-> FileOf(<<>>)]

\* add_to_index: index.add(embeddings); write_index(index); pickle.dump(metadata).
\* The sidecar receives the metadata argument alone, not the accumulated list.
add_to_index(idx, ifile, mfile, embeddings, metadata, fail) ==
    LET added == idx \o embeddings IN
    CASE fail = "add"         -> [index |-> idx, indexFile |-> ifile,
                                  metadataFile |-> mfile, raised |-> TRUE]
      [] fail = "write_index" -> [index |-> added, indexFile |-> ifile,
                                  metadataFile |-> mfile, raised |-> TRUE]
      [] fail = "dump"        -> [index |-> added, indexFile |-> FileOf(added),
                                  metadataFile |-> mfile, raised |-> TRUE]
      [] OTHER                -> [index |-> added, indexFile |-> FileOf(added),
                                  metadataFile |-> FileOf(metadata), raised |-> FALSE]

\* ----- rag/standards_rag/indexer.py and o1/rag/standards_rag/indexer.py

\* What processing one source may do before add_to_index is reached.
FileOutcomes == {"ok", "extract_error", "embed_error"}

\* Where the final dumps of index_standards may raise.
EndFailures == {"none", "metadata", "texts"}

\* o1 lists the requirement CSVs after the standards PDFs; the root indexer
\* reads PDFs only.
Requirements == IF ixkind = "o1" THEN {NumFiles} ELSE {}

\* o1, line 43: index.faiss, metadata.pkl and texts_cache.pkl all exist.
AllCached == indexFile.exists /\ metadataFile.exists /\ textCache

\* Whether o1 has put the source's raw text into all_texts when the source
\* is left (lines 67-68, 109-110): its pages were read and are not empty, or
\* it is a CSV that could be read.
TextGathered(f, outcome) ==
    /\ ixkind = "o1"
    /\ outcome # "extract_error"
    /\ corpus[f] > 0 \/ f \in Requirements

\* What a run that ended leaves for the next one to be compared with:
\* whether it indexed the sentences of every source without meeting an
\* error, and if so the vectors it left in index.faiss.
IndexSnapshot ==
    LET complete == /\ ixpc = "done" /\ ~ixfaulty
                    /\ Len(indexFile.content) = SumOver(Files, corpus)
    IN [complete |-> complete,
        count |-> IF complete THEN Len(indexFile.content) ELSE 0]

\* index_standards: initialize_index, all_metadata = [] (root lines 31-41,
\* o1 lines 47-53, reached when the files of line 43 are not all there).
IndexStandardsStart ==
    /\ ixpc \in {"idle", "done", "raised"}
    /\ ~(ixkind = "o1" /\ AllCached)
    /\ index' = initialize_index.index
    /\ indexFile' = initialize_index.indexFile
    /\ all_metadata' = <<>>
    /\ all_texts' = {}
    /\ success' = FALSE
    /\ ixprev' = IndexSnapshot
    /\ ixfaulty' = FALSE
    /\ todo' = [i \in 1..NumFiles |-> i]
    /\ ixpc' = "loop"
    /\ last' = "initialize_index"
    /\ UNCHANGED <<corpus, metadataFile, ixkind, textCache, call, ixOthers>>

\* o1 index_standards, lines 43-45: index and caches exist, return True.
IndexStandardsCached ==
    /\ ixpc \in {"idle", "done", "raised"}
    /\ ixkind = "o1" /\ AllCached
    /\ success' = TRUE
    /\ ixprev' = IndexSnapshot
    /\ ixfaulty' = FALSE
    /\ ixpc' = "done"
    /\ last' = "cached"
    /\ UNCHANGED <<corpus, index, indexFile, metadataFile, all_metadata, todo,
                   ixkind, textCache, all_texts, call, ixOthers>>

\* index_standards, one source that never reaches add_to_index: extraction
\* or embedding raised (the handler logs and continues) or returned nothing.
IndexStandardsSkip ==
    /\ ixpc = "loop" /\ todo # <<>>
    /\ \E outcome \in FileOutcomes :
          /\ outcome # "ok" \/ corpus[Head(todo)] = 0
          /\ all_texts' = IF TextGathered(Head(todo), outcome)
                          THEN all_texts \cup {Head(todo)} ELSE all_texts
          /\ ixfaulty' = (ixfaulty \/ outcome # "ok")
    /\ todo' = Tail(todo)
    /\ last' = "skip"
    /\ UNCHANGED <<corpus, index, indexFile, metadataFile, all_metadata, ixpc,
                   ixkind, textCache, success, ixprev, call, ixOthers>>

\* index_standards, one source whose sentences were embedded: add_to_index,
\* then all_metadata.extend(metadata) and success = True unless the call raised.
IndexStandardsFile ==
    /\ ixpc = "loop" /\ todo # <<>>
    /\ ixkind # "parser"
    /\ corpus[Head(todo)] > 0
    /\ \E fail \in AddFailures :
          LET units == Units(Head(todo), corpus[Head(todo)])
              metadata == SeqMap(Record, units)
              r == add_to_index(index, indexFile, metadataFile,
                                SeqMap(Embedding, units), metadata, fail)
          IN /\ index' = r.index
             /\ indexFile' = r.indexFile
             /\ metadataFile' = r.metadataFile
             /\ all_metadata' = IF r.raised THEN all_metadata
                                ELSE all_metadata \o metadata
             /\ success' = (success \/ (ixkind = "o1" /\ ~r.raised))
             /\ ixfaulty' = (ixfaulty \/ r.raised)
             /\ last' = IF r.raised THEN "add_to_index_raised" ELSE "add_to_index"
    /\ all_texts' = IF TextGathered(Head(todo), "ok")
                    THEN all_texts \cup {Head(todo)} ELSE all_texts
    /\ todo' = Tail(todo)
    /\ UNCHANGED <<corpus, ixpc, ixkind, textCache, ixprev, call, ixOthers>>

\* index_standards, the final dumps (root lines 82-87, o1 lines 143-153):
\* all_metadata when not empty, then o1's all_texts when not empty. A dump
\* that cannot open its file raises out of index_standards.
IndexStandardsEnd ==
    /\ ixpc = "loop" /\ todo = <<>>
    /\ \E fail \in EndFailures :
          LET dumpsMetadata == all_metadata # <<>>
              dumpsTexts == ixkind = "o1" /\ all_texts # {}
              raised == \/ fail = "metadata" /\ dumpsMetadata
                        \/ fail = "texts" /\ dumpsTexts
          IN /\ fail = "metadata" => dumpsMetadata
             /\ fail = "texts" => dumpsTexts
             /\ metadataFile' = IF dumpsMetadata /\ fail # "metadata"
                                THEN FileOf(all_metadata) ELSE metadataFile
             /\ textCache' = (textCache \/ (dumpsTexts /\ fail = "none"))
             /\ ixfaulty' = (ixfaulty \/ raised)
             /\ ixpc' = IF raised THEN "raised" ELSE "done"
    /\ last' = "index_standards"
    /\ UNCHANGED <<corpus, index, indexFile, all_metadata, todo, ixkind,
                   all_texts, success, ixprev, call, ixOthers>>

\* ------------------------------------------ rag/standards_rag/updater.py

\* update_standards is waiting in its monitor (o1: after the first
\* index_standards of line 29) when a PDF that was not in data/standards is
\* put there; the callback (root lines 28-31, o1 lines 35-41) then calls
\* index_standards.
AddStandard(f) ==
    /\ ixkind \in {"root", "o1"}
    /\ ixpc \in {"idle", "done", "raised"}
    /\ newPdf = 0
    /\ corpus[f] = 0
    /\ \E n \in 1..MaxUnits : corpus' = [corpus EXCEPT ![f] = n]
    /\ newPdf' = f
    /\ ixpc' = "idle"
    /\ UNCHANGED <<index, indexFile, metadataFile, all_metadata, todo, last, ixkind,
                   textCache, all_texts, success, ixfaulty, ixprev, call, uOthers>>

\* ------------------------------------- rag/requirements_rag/parser.py

\* parse_requirements, lines 29-32: check_resources answers False and the
\* parse is abandoned before anything is touched.
ParseRequirementsRefused ==
    /\ ixkind = "parser"
    /\ ixpc \in {"idle", "done", "raised"}
    /\ ixpc' = "done"
    /\ last' = "refused"
    /\ UNCHANGED <<corpus, index, indexFile, metadataFile, all_metadata, todo,
                   ixkind, textCache, all_texts, success, ixfaulty, ixprev, call,
                   ixOthers>>

\* parse_requirements, lines 62-84, one CSV that reaches add_to_index: the
\* embeddings are one per sentence tokenize_and_embed found in the rows'
\* texts, the metadata one record per row of the CSV; add_to_index takes
\* both as they are.
ParseRequirementsFile ==
    /\ ixpc = "loop" /\ todo # <<>>
    /\ ixkind = "parser"
    /\ corpus[Head(todo)] > 0
    /\ \E fail \in AddFailures, sentences \in 1..(corpus[Head(todo)] + 1) :
          LET f == Head(todo)
              embeddings == SeqMap(Embedding, Units(f, sentences))
              metadata == SeqMap(Record, Units(f, corpus[f]))
              r == add_to_index(index, indexFile, metadataFile, embeddings,
                                metadata, fail)
          IN /\ call' = [mismatch |-> Len(embeddings) # Len(metadata),
                         indexFile |-> indexFile, metadataFile |-> metadataFile]
             /\ index' = r.index
             /\ indexFile' = r.indexFile
             /\ metadataFile' = r.metadataFile
             /\ all_metadata' = IF r.raised THEN all_metadata
                                ELSE all_metadata \o metadata
             /\ ixfaulty' = (ixfaulty \/ r.raised)
             /\ last' = IF r.raised THEN "add_to_index_raised" ELSE "add_to_index"
    /\ todo' = Tail(todo)
    /\ UNCHANGED <<corpus, ixpc, ixkind, textCache, all_texts, success, ixprev,
                   ixOthers>>

\* ------------------------------------------------------- the dispatchers
\* agents/extraction/concurrent.py (concurrent_extract over extract_data),
\* rag/reports_rag/searcher.py (search_report over search_single_criterion)
\* and o3/services/agents/base_brain.py (base_brain over sub_agent and
\* validator_agent).

DispatcherKinds ==
    {"concurrent_extract", "o1_concurrent_extract", "search_report", "base_brain"}

\* The dispatchers that run their searches on a thread pool, and those of
\* them whose tasks are extract_data.
PoolKinds == {"concurrent_extract", "o1_concurrent_extract", "search_report"}
ExtractKinds == {"concurrent_extract", "o1_concurrent_extract"}

\* The cap of monitor_resources on the advised number of sub-agents.
MaxSubAgents == 10

Min(a, b) == IF a < b THEN a ELSE b
Max(a, b) == IF a > b THEN a ELSE b

\* monitor_resources: min(int(available_GB // 0.5), 10).
max_sub_agents(halfGB) == Min(halfGB, MaxSubAgents)

NoFuture == [st |-> "none", matches |-> FALSE, failed |-> FALSE]
Submitted(st) == [st |-> st, matches |-> FALSE, failed |-> FALSE]
Dispatched == 1..nCriteria
\* The phases of a task in execution; "check", "extracting" and "writing" are
\* o1 extract_data's report text cache block, lines 55-71.
Executing == {"check", "extracting", "writing", "running"}
Running == {c \in Dispatched : future[c].st \in Executing}
Finished == {c \in Dispatched : future[c].st \in {"done", "raised", "cancelled"}}
QueryResult(c, m) == [criterion |-> c, matches |-> m]

\* What one search of the report index may do.
SearchOutcomes == {"matches", "empty", "raises"}

\* extract_data: search_report([criterion]); an empty result list and any
\* exception both become {"criterion": criterion, "matches": []}.
extract_data(outcome) ==
    [st |-> "done", matches |-> (outcome = "matches"), failed |-> (outcome = "raises")]

\* search_single_criterion: no handler; an exception of tokenize_and_embed or
\* search_index stays in the future.
search_single_criterion(outcome) ==
    IF outcome = "raises"
    THEN [st |-> "raised", matches |-> FALSE, failed |-> TRUE]
    ELSE [st |-> "done", matches |-> (outcome = "matches"), failed |-> FALSE]

\* What one sub_agent may do: raise while embedding the criterion (line 43,
\* outside any handler), find no candidate, get sentences from OpenAI, or
\* exhaust its three OpenAI attempts ("Error: ..." in found_info).
SubAgentOutcomes == {"raises", "no_candidates", "found", "openai_error"}

sub_agent(outcome) ==
    IF outcome = "raises"
    THEN [st |-> "raised", matches |-> FALSE, failed |-> TRUE]
    ELSE [st |-> "done", matches |-> (outcome = "found"),
          failed |-> (outcome = "openai_error")]

\* concurrent_extract, lines 31-42: the resource check, the pool, the submits.
ConcurrentExtractStart ==
    /\ dkind = "concurrent_extract" /\ dpc = "start"
    /\ \E compliant \in BOOLEAN, halfGB \in 0..MaxHalfGB :
         /\ sample' = IF compliant THEN "compliant" ELSE "exceeded"
         /\ IF ~compliant
            THEN /\ dpc' = "refused"        \* return []
                 /\ UNCHANGED <<workers, future>>
            ELSE IF max_sub_agents(halfGB) = 0
            THEN /\ dpc' = "pool_error"     \* ThreadPoolExecutor(max_workers=0): ValueError
                 /\ workers' = max_sub_agents(halfGB)
                 /\ UNCHANGED future
            ELSE /\ workers' = max_sub_agents(halfGB)
                 /\ future' = [c \in Criteria |->
                                 IF c <= nCriteria THEN Submitted("pending") ELSE NoFuture]
                 /\ dpc' = "running"
    /\ UNCHANGED <<dkind, nCriteria, collected, results, page_texts,
                   report_cache, rows, dOthers>>

\* o1 concurrent_extract, lines 34-38: monitor_resources is asked for
\* max_sub_agents only; its "compliant" answer is not looked at.
O1ConcurrentExtractStart ==
    /\ dkind = "o1_concurrent_extract" /\ dpc = "start"
    /\ \E compliant \in BOOLEAN, halfGB \in 0..MaxHalfGB :
         /\ sample' = IF compliant THEN "compliant" ELSE "exceeded"
         /\ IF max_sub_agents(halfGB) = 0
            THEN /\ dpc' = "pool_error"     \* ThreadPoolExecutor(max_workers=0): ValueError
                 /\ workers' = max_sub_agents(halfGB)
                 /\ UNCHANGED future
            ELSE /\ workers' = max_sub_agents(halfGB)
                 /\ future' = [c \in Criteria |->
                                 IF c <= nCriteria THEN Submitted("pending") ELSE NoFuture]
                 /\ dpc' = "running"
    /\ UNCHANGED <<dkind, nCriteria, collected, results, page_texts,
                   report_cache, rows, dOthers>>

\* search_report, lines 77-80: ThreadPoolExecutor() with the default worker
\* count (min(32, cpu_count + 4), above the criteria counts modelled here).
\* Lines 39-41: check_resources() false returns [] before the pool exists.
SearchReportStart ==
    /\ dkind = "search_report" /\ dpc = "start"
    /\ \E compliant \in BOOLEAN :
         /\ sample' = IF compliant THEN "compliant" ELSE "exceeded"
         /\ IF ~compliant
            THEN /\ dpc' = "refused"
                 /\ UNCHANGED <<workers, future>>
            ELSE /\ workers' = MaxCriteria + 1
                 /\ future' = [c \in Criteria |->
                                 IF c <= nCriteria THEN Submitted("pending") ELSE NoFuture]
                 /\ dpc' = "running"
    /\ UNCHANGED <<dkind, nCriteria, collected, results, page_texts,
                   report_cache, rows, dOthers>>

\* A pool thread takes a pending task.
TaskStart(c) ==
    /\ dkind \in PoolKinds
    /\ dpc \in {"running", "unwinding"}
    /\ future[c].st = "pending"
    /\ Cardinality(Running) < workers
    /\ future' = [future EXCEPT ![c] =
                    Submitted(IF dkind = "o1_concurrent_extract" THEN "check"
                              ELSE "running")]
    /\ UNCHANGED <<dkind, nCriteria, workers, collected, results, dpc, sample, page_texts,
                   report_cache, rows, dOthers>>

\* o1 extract_data, lines 58-65: a non-empty page_texts argument is used as
\* it is; otherwise os.path.exists(report_cache_path) decides between
\* pickle.load of the cache and extracting the text anew. A load that meets
\* the file while another search is writing it may get the whole content or
\* fail inside the try block (lines 188-190: matches []).
ExtractCacheCheck(c) ==
    /\ dkind = "o1_concurrent_extract"
    /\ dpc \in {"running", "unwinding"}
    /\ future[c].st = "check"
    /\ \E loaded \in BOOLEAN :
         /\ (page_texts \/ report_cache = "complete") => loaded
         /\ future' = [future EXCEPT ![c] =
                        IF page_texts \/ (report_cache # "missing" /\ loaded)
                            THEN Submitted("running")
                        ELSE IF report_cache = "missing" THEN Submitted("extracting")
                        ELSE extract_data("raises")]
    /\ UNCHANGED <<dkind, nCriteria, workers, collected, results, dpc, sample, page_texts,
                   report_cache, rows, dOthers>>

\* Lines 66-69: extract_pdf_text, then open(report_cache_path, "wb"), which
\* truncates the file.
ExtractCacheOpen(c) ==
    /\ dkind = "o1_concurrent_extract"
    /\ dpc \in {"running", "unwinding"}
    /\ future[c].st = "extracting"
    /\ future' = [future EXCEPT ![c] = Submitted("writing")]
    /\ report_cache' = "partial"
    /\ UNCHANGED <<dkind, nCriteria, workers, collected, results, dpc, sample, page_texts,
                   rows, dOthers>>

\* Lines 69-71: pickle.dump and the close of the file; the content is whole
\* once no other search still has the file open for writing.
ExtractCacheDump(c) ==
    /\ dkind = "o1_concurrent_extract"
    /\ dpc \in {"running", "unwinding"}
    /\ future[c].st = "writing"
    /\ future' = [future EXCEPT ![c] = Submitted("running")]
    /\ report_cache' = IF \E b \in Dispatched \ {c} : future[b].st = "writing"
                       THEN "partial" ELSE "complete"
    /\ UNCHANGED <<dkind, nCriteria, workers, collected, results, dpc, sample, page_texts,
                   rows, dOthers>>

\* A pool thread finishes its task.
TaskFinish(c) ==
    /\ dkind \in PoolKinds
    /\ dpc \in {"running", "unwinding"}
    /\ future[c].st = "running"
    /\ \E outcome \in SearchOutcomes :
         future' = [future EXCEPT ![c] =
                      IF dkind \in ExtractKinds THEN extract_data(outcome)
                      ELSE search_single_criterion(outcome)]
    /\ UNCHANGED <<dkind, nCriteria, workers, collected, results, dpc, sample, page_texts,
                   report_cache, rows, dOthers>>

\* The as_completed loop: results.append(future.result()); result() re-raises
\* the task's exception, which leaves the with block (shutdown(wait=True)).
\* o1's list(executor.map(...)) takes the results in submission order.
Collect(c) ==
    /\ dkind \in PoolKinds
    /\ dpc = "running"
    /\ c \in Dispatched \ collected
    /\ dkind = "o1_concurrent_extract" => \A b \in Dispatched \ collected : c <= b
    /\ future[c].st \in {"done", "raised"}
    /\ collected' = collected \cup {c}
    /\ IF future[c].st = "done"
       THEN /\ results' = Append(results, QueryResult(c, future[c].matches))
            /\ dpc' = dpc
       ELSE /\ results' = results
            /\ dpc' = "unwinding"
    /\ UNCHANGED <<dkind, nCriteria, workers, future, sample, page_texts,
                   report_cache, rows, dOthers>>

\* return results, once every future was collected.
PoolReturn ==
    /\ dkind \in PoolKinds
    /\ dpc = "running"
    /\ collected = Dispatched
    /\ dpc' = "returned"
    /\ UNCHANGED <<dkind, nCriteria, workers, future, collected, results, sample, page_texts,
                   report_cache, rows, dOthers>>

\* The exception leaves the dispatcher after the pool has run every task it
\* was given; the local result list is lost with the frame.
PoolRaise ==
    /\ dkind \in PoolKinds
    /\ dpc = "unwinding"
    /\ Finished = Dispatched
    /\ results' = <<>>
    /\ dpc' = "raised"
    /\ UNCHANGED <<dkind, nCriteria, workers, future, collected, sample, page_texts,
                   report_cache, rows, dOthers>>

\* root execute_workflow, lines 66-99, around concurrent_extract: the
\* criteria are those of the requirements in their order, validate_data
\* takes each extraction and searches the standards for the extraction's
\* criterion, and zip(requirements, extractions, validations) pairs the
\* lists by position and stops at the shortest. A row carries the
\* requirement's criterion and the criteria its sentences and its standard
\* info were searched for. generate_summary has no handler: its exception
\* reaches line 101, and nothing is written.
Zip(n, extractions) ==
    [i \in 1..Min(n, Len(extractions)) |->
        [criterion |-> i,
         extracted_sentences |-> extractions[i].criterion,
         standard_info |-> extractions[i].criterion]]

WorkflowCompile ==
    /\ dkind = "concurrent_extract"
    /\ dpc \in {"returned", "refused"}
    /\ \E raises \in BOOLEAN :
         /\ raises => results # <<>>
         /\ IF raises
            THEN rows' = rows /\ dpc' = "workflow_false"
            ELSE rows' = Zip(nCriteria, results) /\ dpc' = "workflow_true"
    /\ UNCHANGED <<dkind, nCriteria, workers, future, collected, results, sample,
                   page_texts, report_cache, dOthers>>

\* super_brain, line 120: min(total_criteria, max(1, int((MAX_RESOURCE_USAGE -
\* resource_usage) / 5))); slack is the truncated quotient.
max_agents(total_criteria, slack) == Min(total_criteria, Max(1, slack))

\* super_brain, lines 42-43 and 120-121, takes the resource sample and stores
\* the agent count in state.active_agents (workers); base_brain, lines 36-40,
\* then creates one asyncio task per criterion, all scheduled, without
\* reading state.active_agents.
BaseBrainStart ==
    /\ dkind = "base_brain" /\ dpc = "start"
    /\ \E slack \in 0..MaxHalfGB :
         /\ workers' = max_agents(nCriteria, slack)
         /\ sample' = "taken"     \* no floor is compared with resource_usage
    /\ future' = [c \in Criteria |->
                    IF c <= nCriteria THEN Submitted("running") ELSE NoFuture]
    /\ dpc' = "running"
    /\ UNCHANGED <<dkind, nCriteria, collected, results, page_texts,
                   report_cache, rows, dOthers>>

\* One sub_agent task ends; after base_brain has raised the remaining tasks
\* still run until the event loop closes.
SubAgentFinish(c) ==
    /\ dkind = "base_brain" /\ dpc \in {"running", "raised"}
    /\ c \in Dispatched /\ future[c].st = "running"
    /\ \E outcome \in SubAgentOutcomes :
         future' = [future EXCEPT ![c] = sub_agent(outcome)]
    /\ UNCHANGED <<dkind, nCriteria, workers, collected, results, dpc, sample, page_texts,
                   report_cache, rows, dOthers>>

\* base_brain, line 41: gather(*tasks) raises the first exception of a task
\* at once (return_exceptions is not set).
GatherRaise ==
    /\ dkind = "base_brain" /\ dpc \in {"running", "validating"}
    /\ \E c \in Dispatched : future[c].st = "raised"
    /\ results' = <<>>
    /\ dpc' = "raised"
    /\ UNCHANGED <<dkind, nCriteria, workers, future, collected, sample, page_texts,
                   report_cache, rows, dOthers>>

\* base_brain, lines 41-46: gather returns the results in input order; one
\* validator_agent task per result with found_info (never empty).
GatherSubAgents ==
    /\ dkind = "base_brain" /\ dpc = "running"
    /\ \A c \in Dispatched : future[c].st = "done"
    /\ collected' = Dispatched
    /\ future' = [c \in Criteria |->
                    IF c <= nCriteria
                    THEN [future[c] EXCEPT !.st = "validating"] ELSE NoFuture]
    /\ dpc' = "validating"
    /\ UNCHANGED <<dkind, nCriteria, workers, results, sample, page_texts,
                   report_cache, rows, dOthers>>

\* One validator_agent task ends: it returns its dict, or raises outside its
\* retry loop (process.extractOne on no sector criteria, lines 58-59).
ValidatorFinish(c) ==
    /\ dkind = "base_brain" /\ dpc \in {"validating", "raised"}
    /\ c \in Dispatched /\ future[c].st = "validating"
    /\ \E raises \in BOOLEAN :
         future' = [future EXCEPT ![c] =
                      IF raises THEN [st |-> "raised", matches |-> FALSE, failed |-> TRUE]
                      ELSE [future[c] EXCEPT !.st = "done"]]
    /\ UNCHANGED <<dkind, nCriteria, workers, collected, results, dpc, sample, page_texts,
                   report_cache, rows, dOthers>>

\* base_brain, lines 47-52: state.results.extend(valid_results); return state.
BaseBrainReturn ==
    /\ dkind = "base_brain" /\ dpc = "validating"
    /\ \A c \in Dispatched : future[c].st = "done"
    /\ results' = [c \in 1..nCriteria |-> QueryResult(c, future[c].matches)]
    /\ dpc' = "returned"
    /\ UNCHANGED <<dkind, nCriteria, workers, future, collected, sample, page_texts,
                   report_cache, rows, dOthers>>

\* main, o3/main.py line 49 and 56: the exception of base_brain ends
\* asyncio.run, which cancels the tasks that are still pending.
LoopShutdown ==
    /\ dkind = "base_brain" /\ dpc = "raised"
    /\ \E c \in Dispatched : future[c].st \in {"running", "validating"}
    /\ future' = [c \in Criteria |->
                    IF future[c].st \in {"running", "validating"}
                    THEN [future[c] EXCEPT !.st = "cancelled"] ELSE future[c]]
    /\ UNCHANGED <<dkind, nCriteria, workers, collected, results, dpc, sample, page_texts,
                   report_cache, rows, dOthers>>

\* ------------------------------------------------------------ the watchers
\* utils/file_monitor.py: a watchdog observer thread that runs the callback
\* for every event, and monitor_folder's own loop that runs the same callback
\* for every file once per update interval. The callback of update_standards
\* is index_standards, which rewrites index.faiss and metadata.pkl; no lock is
\* taken anywhere on the way.

\* A PDF of the watched directory is created or modified.
FileChanged ==
    /\ fsEvents < MaxEvents
    /\ fsEvents' = fsEvents + 1
    /\ UNCHANGED <<obspc, pollpc, scanLeft, elapsed, searchpc, o3last, wOthers>>

\* FileEventHandler.on_created / on_modified: the observer thread calls
\* callback(event.src_path), which enters index_standards.
ObserverDispatch ==
    /\ obspc = "idle" /\ fsEvents > 0
    /\ fsEvents' = fsEvents - 1
    /\ obspc' = "index_standards"
    /\ UNCHANGED <<pollpc, scanLeft, elapsed, searchpc, o3last, wOthers>>

\* index_standards returns to the observer thread.
ObserverReturn ==
    /\ obspc = "index_standards"
    /\ obspc' = "idle"
    /\ UNCHANGED <<fsEvents, pollpc, scanLeft, elapsed, searchpc, o3last, wOthers>>

\* monitor_folder, lines 61-70: time.sleep(1) while the interval has not passed.
PollSleep ==
    /\ pollpc = "sleep" /\ elapsed < UpdateInterval
    /\ elapsed' = elapsed + 1
    /\ UNCHANGED <<fsEvents, obspc, pollpc, scanLeft, searchpc, o3last, wOthers>>

\* monitor_folder, lines 63-65: the interval has passed, os.listdir.
PollScanStart ==
    /\ pollpc = "sleep" /\ elapsed >= UpdateInterval
    /\ pollpc' = "scan"
    /\ scanLeft' = NumFiles
    /\ UNCHANGED <<fsEvents, obspc, elapsed, searchpc, o3last, wOthers>>

\* monitor_folder, lines 65-68: callback(file_path) for the next file, in the
\* loop's own thread.
PollCallback ==
    /\ pollpc = "scan" /\ scanLeft > 0
    /\ pollpc' = "index_standards"
    /\ scanLeft' = scanLeft - 1
    /\ UNCHANGED <<fsEvents, obspc, elapsed, searchpc, o3last, wOthers>>

\* index_standards returns to the loop.
PollCallbackReturn ==
    /\ pollpc = "index_standards"
    /\ pollpc' = "scan"
    /\ UNCHANGED <<fsEvents, obspc, scanLeft, elapsed, searchpc, o3last, wOthers>>

\* monitor_folder, line 69: last_check = current_time.
PollScanEnd ==
    /\ pollpc = "scan" /\ scanLeft = 0
    /\ pollpc' = "sleep"
    /\ elapsed' = 0
    /\ UNCHANGED <<fsEvents, obspc, scanLeft, searchpc, o3last, wOthers>>

\* search_standards: faiss.read_index(index_path), then search_index, which
\* unpickles metadata_path.
SearchStart ==
    /\ searchpc = "idle"
    /\ searchpc' = "search_standards"
    /\ UNCHANGED <<fsEvents, obspc, pollpc, scanLeft, elapsed, o3last, wOthers>>

SearchEnd ==
    /\ searchpc = "search_standards"
    /\ searchpc' = "idle"
    /\ UNCHANGED <<fsEvents, obspc, pollpc, scanLeft, elapsed, o3last, wOthers>>

\* StandardsManager.monitor and query run on one asyncio event loop, and
\* neither _rebuild_index nor query awaits anything that yields
\* (vectorize_chunks has no await of its own): each runs to its end as one
\* step of the loop.
O3RebuildIndex ==
    /\ o3last' = "_rebuild_index"
    /\ UNCHANGED <<fsEvents, obspc, pollpc, scanLeft, elapsed, searchpc, wOthers>>

O3Query ==
    /\ o3last' = "query"
    /\ UNCHANGED <<fsEvents, obspc, pollpc, scanLeft, elapsed, searchpc, wOthers>>

\* The threads that are rewriting, and reading, the standards index files.
IndexWriters ==
    (IF obspc = "index_standards" THEN {"observer"} ELSE {})
        \cup (IF pollpc = "index_standards" THEN {"poller"} ELSE {})
IndexReaders == IF searchpc = "search_standards" THEN {"searcher"} ELSE {}

\* ------------------------------------- o2/esg_system/build_database.py

\* embed_sections' batch size.
BatchSize == 10

ParaIds == 1..MaxUnits
NoCollection == [exists |-> FALSE, docs |-> [i \in ParaIds |-> 0]]
NoProc == [file |-> 0, outcome |-> "none", failed |-> 0, stored |-> 0, cached |-> FALSE]

\* The entries of one collection, and of all: what collection.count() gives.
Count(docs) == SumOver(ParaIds, docs)
EntryCount == SumOver(Standards, [f \in Standards |-> Count(collection[f].docs)])

\* get_file_hash of the file as it is now, told apart from the hash of any
\* content the file had before.
get_file_hash(f) == "current"

\* check_existing_collection: the collection is listed, the cache file
\* exists and its hash is the file's current hash; an exception on the way
\* (lines 308-310) answers False.
check_existing_collection(f, raises) ==
    /\ ~raises
    /\ collection[f].exists
    /\ hashCache[f] # "none"
    /\ hashCache[f] = get_file_hash(f)

\* A store that appends whatever it is given, ids it holds included.
collection_append(docs, ids) ==
    [i \in ParaIds |-> IF i \in ids THEN docs[i] + 1 ELSE docs[i]]

\* collection.add of one batch: ChromaDB keeps the entry an id already has.
collection_add(docs, ids) ==
    [i \in ParaIds |-> IF i \in ids /\ docs[i] = 0 THEN 1 ELSE docs[i]]

\* The batch of embed_sections paragraph i falls in, and the batches of n.
BatchOf(i) == ((i - 1) \div BatchSize) + 1
Batches(n) == IF n = 0 THEN 0 ELSE BatchOf(n)

\* embed_sections, lines 198-276. `bad` are the paragraphs whose embedding
\* raised or came out all zero: they are left out of their batch (lines
\* 243-253). `failAt` is the batch whose collection.add raises (0: none);
\* the batches before it are stored. The call raises iff failAt is a batch.
embed_sections(docs, n, bad, failAt) ==
    LET last_batch == IF failAt = 0 THEN Batches(n) ELSE failAt - 1
        ids == {i \in 1..n : i \notin bad /\ BatchOf(i) <= last_batch}
    IN [docs |-> collection_add(docs, ids),
        stored |-> Cardinality(ids),
        raised |-> failAt # 0]

\* cache_file_hash, lines 320-328: the hash of the file as it is now.
cache_file_hash(cache, f) == [cache EXCEPT ![f] = get_file_hash(f)]

\* The standards file is rewritten with another content: a cached hash is
\* no longer the file's.
O2Modify(f) ==
    /\ o2pc # "off"
    /\ hashCache[f] = get_file_hash(f) \/ ~changed
    /\ hashCache' = [hashCache EXCEPT ![f] = IF @ = "none" THEN "none" ELSE "stale"]
    /\ changed' = TRUE
    /\ UNCHANGED <<o2units, collection, o2pc, o2todo, collections, proc, prev,
                   failed, faulty, o2Others>>

\* A source nothing of which was indexed: its extraction raised, no
\* paragraph of it could be embedded, or storing its first batch raised.
FailedCompletely(p) ==
    /\ p.outcome \in {"indexed", "raised"}
    /\ p.stored = 0

\* Whether processing a source met an error.
Faulty(p) == p.failed # 0 \/ p.outcome = "raised"

\* Every paragraph of every standards file is held by the file's collection.
AllStored ==
    \A f \in Standards : \A i \in 1..o2units[f] : collection[f].docs[i] > 0

\* What a run that ended leaves for the next one to be compared with:
\* whether it indexed every paragraph of every file without error, the files
\* unchanged, and if so the entries it left.
Snapshot(ended) ==
    LET complete == ended = "returned" /\ ~faulty /\ ~changed /\ AllStored
    IN [complete |-> complete, count |-> IF complete THEN EntryCount ELSE 0]

\* initialize_database, lines 400-405: validate_requirements_csv and
\* build_criteria_mapping (either may raise), collections = {}.
O2RunStart ==
    /\ o2pc \in {"idle", "returned", "raised"}
    /\ prev' = IF o2pc = "idle" THEN prev ELSE Snapshot(o2pc)
    /\ changed' = FALSE
    /\ proc' = NoProc
    /\ collections' = {}
    /\ \E raises \in BOOLEAN :
         /\ faulty' = raises
         /\ IF raises
            THEN o2pc' = "raised" /\ o2todo' = <<>>
            ELSE o2pc' = "loop" /\ o2todo' = [i \in 1..NumStandards |-> i]
    /\ UNCHANGED <<o2units, collection, hashCache, failed, o2Others>>

\* initialize_database, lines 408-411: the collection is reused.
O2Reuse ==
    /\ o2pc = "loop" /\ o2todo # <<>>
    /\ check_existing_collection(Head(o2todo), FALSE)
    /\ collections' = collections \cup {Head(o2todo)}
    /\ proc' = [NoProc EXCEPT !.file = Head(o2todo), !.outcome = "reused"]
    /\ o2todo' = Tail(o2todo)
    /\ UNCHANGED <<o2units, collection, hashCache, o2pc, prev, changed, failed,
                   faulty, o2Others>>

\* initialize_database, line 413: split_standards_pdf raises (lines
\* 133-135); nothing catches it before initialize_database's own handler.
O2SplitRaises ==
    /\ o2pc = "loop" /\ o2todo # <<>>
    /\ \E raises \in BOOLEAN : ~check_existing_collection(Head(o2todo), raises)
    /\ proc' = [NoProc EXCEPT !.file = Head(o2todo), !.outcome = "raised"]
    /\ failed' = failed \cup {Head(o2todo)}
    /\ faulty' = TRUE
    /\ o2pc' = "raised"
    /\ UNCHANGED <<o2units, collection, hashCache, o2todo, collections, prev,
                   changed, o2Others>>

\* initialize_database, lines 413-416: no paragraph was extracted; continue.
O2NoSections ==
    /\ o2pc = "loop" /\ o2todo # <<>>
    /\ \E raises \in BOOLEAN : ~check_existing_collection(Head(o2todo), raises)
    /\ o2units[Head(o2todo)] = 0
    /\ proc' = [NoProc EXCEPT !.file = Head(o2todo), !.outcome = "no_sections"]
    /\ failed' = failed \ {Head(o2todo)}
    /\ o2todo' = Tail(o2todo)
    /\ UNCHANGED <<o2units, collection, hashCache, o2pc, collections, prev,
                   changed, faulty, o2Others>>

\* initialize_database, lines 418-422: embed_sections, then cache_file_hash,
\* which may raise as well.
O2Embed ==
    /\ o2pc = "loop" /\ o2todo # <<>>
    /\ \E raises \in BOOLEAN : ~check_existing_collection(Head(o2todo), raises)
    /\ o2units[Head(o2todo)] > 0
    /\ \E bad \in SUBSET (1..o2units[Head(o2todo)]),
          failAt \in 0..Batches(o2units[Head(o2todo)]),
          cacheRaises \in BOOLEAN :
         LET f == Head(o2todo)
             r == embed_sections(collection[f].docs, o2units[f], bad, failAt)
             raised == r.raised \/ cacheRaises
             cached == ~r.raised /\ ~cacheRaises
             p == [file |-> f, outcome |-> IF raised THEN "raised" ELSE "indexed",
                   failed |-> Cardinality(bad), stored |-> r.stored,
                   cached |-> cached]
         IN /\ collection' = [collection EXCEPT ![f] = [exists |-> TRUE, docs |-> r.docs]]
            /\ hashCache' = IF cached THEN cache_file_hash(hashCache, f) ELSE hashCache
            /\ collections' = IF r.raised THEN collections ELSE collections \cup {f}
            /\ proc' = p
            /\ failed' = IF FailedCompletely(p) THEN failed \cup {f} ELSE failed \ {f}
            /\ faulty' = (faulty \/ Faulty(p))
            /\ o2pc' = IF raised THEN "raised" ELSE "loop"
            /\ o2todo' = IF raised THEN o2todo ELSE Tail(o2todo)
    /\ UNCHANGED <<o2units, prev, changed, o2Others>>

\* initialize_database, lines 424-429: ValueError when no collection was
\* gathered, else return collections.
O2RunEnd ==
    /\ o2pc = "loop" /\ o2todo = <<>>
    /\ o2pc' = IF collections = {} THEN "raised" ELSE "returned"
    /\ UNCHANGED <<o2units, collection, hashCache, o2todo, collections, proc,
                   prev, changed, failed,
                   faulty, o2Others>>

\* ------------------ o3/config.py and o3/utils/standards_manager.py: loading

\* The embedding dimension both loaders expect, and the dimensions an index
\* file found on disk may have.
DIMENSION == 384
Dimensions == {128, DIMENSION, 768}

NoIndexFile == [exists |-> FALSE, parseable |-> FALSE, d |-> 0, ntotal |-> 0]
IndexFile(d, n) == [exists |-> TRUE, parseable |-> TRUE, d |-> d, ntotal |-> n]
NotLoaded == [loaded |-> FALSE, d |-> 0, ntotal |-> 0]

\* faiss.IndexFlatL2(dimension): an empty index in memory.
IndexFlatL2(d) == [loaded |-> TRUE, d |-> d, ntotal |-> 0]

\* faiss.read_index of a file that parses.
read_index(file) == [loaded |-> TRUE, d |-> file.d, ntotal |-> file.ntotal]

\* faiss.write_index.
write_index(idx) == IndexFile(idx.d, idx.ntotal)

\* o3/config.py, lines 57-68, run when the module is imported: read the
\* index file if it exists (read_index raises on a file it cannot parse);
\* an index of another dimension is logged with a warning, replaced by an
\* empty index and written over the file; a missing file is created.
ConfigLoad ==
    /\ loader = "config" /\ lpc = "start"
    /\ IF indexOnDisk.exists
       THEN IF ~indexOnDisk.parseable
            THEN /\ lpc' = "raised"
                 /\ UNCHANGED <<indexOnDisk, faiss_index>>
            ELSE IF indexOnDisk.d # DIMENSION
                 THEN /\ faiss_index' = IndexFlatL2(DIMENSION)
                      /\ indexOnDisk' = write_index(IndexFlatL2(DIMENSION))
                      /\ lpc' = "loaded"
                 ELSE /\ faiss_index' = read_index(indexOnDisk)
                      /\ lpc' = "loaded"
                      /\ UNCHANGED indexOnDisk
       ELSE /\ faiss_index' = IndexFlatL2(DIMENSION)
            /\ indexOnDisk' = write_index(IndexFlatL2(DIMENSION))
            /\ lpc' = "loaded"
    /\ UNCHANGED <<loader, metadataOnDisk, indexBefore, state_sentences, monitor_tasks, documents, lOthers>>

\* StandardsManager._init_index, lines 68-74: read the file if it exists,
\* whatever its dimension, else a new empty index in memory.
SMInitIndex ==
    /\ loader = "standards_manager" /\ lpc = "start"
    /\ IF indexOnDisk.exists
       THEN IF indexOnDisk.parseable
            THEN faiss_index' = read_index(indexOnDisk) /\ lpc' = "init_done"
            ELSE lpc' = "raised" /\ UNCHANGED faiss_index
       ELSE faiss_index' = IndexFlatL2(DIMENSION) /\ lpc' = "init_done"
    /\ UNCHANGED <<loader, indexOnDisk, metadataOnDisk, indexBefore, state_sentences, monitor_tasks, documents, lOthers>>

\* StandardsManager._load_or_build_index, lines 80-83: metadata and index
\* files exist; json.load, which raises on a file that is not JSON.
SMLoadMetadata ==
    /\ loader = "standards_manager" /\ lpc = "init_done"
    /\ metadataOnDisk /\ indexOnDisk.exists
    /\ \E raises \in BOOLEAN : lpc' = IF raises THEN "raised" ELSE "loaded"
    /\ UNCHANGED <<loader, indexOnDisk, metadataOnDisk, faiss_index, indexBefore,
                   state_sentences, monitor_tasks, documents, lOthers>>

\* StandardsManager._rebuild_index, lines 91-116, reached when either file
\* is missing: a new empty index, the chunks of the PDFs of data/base added
\* to it, and both files written when there is any chunk. Parsing or
\* embedding a PDF may raise before anything is written.
SMRebuildIndex ==
    /\ loader = "standards_manager" /\ lpc = "init_done"
    /\ ~(metadataOnDisk /\ indexOnDisk.exists)
    /\ \E chunks \in 0..MaxUnits, raises \in BOOLEAN :
         IF raises
         THEN /\ faiss_index' = IndexFlatL2(DIMENSION)
              /\ lpc' = "raised"
              /\ UNCHANGED <<indexOnDisk, metadataOnDisk>>
         ELSE LET built == [IndexFlatL2(DIMENSION) EXCEPT !.ntotal = chunks]
              IN /\ faiss_index' = built
                 /\ indexOnDisk' = IF chunks > 0 THEN write_index(built)
                                   ELSE indexOnDisk
                 /\ metadataOnDisk' = (metadataOnDisk \/ chunks > 0)
                 /\ lpc' = "loaded"
    /\ UNCHANGED <<loader, indexBefore, state_sentences, monitor_tasks, documents, lOthers>>

\* super_brain, lines 46-129, called for one document after the import of
\* config: a document without text returns None at line 53; else the
\* sentences of the document (a fresh state) are embedded, added to the
\* module-level faiss_index of config.py as it stands, and the index is
\* written to INDEX_PATH (lines 68-73). Lines 76-110 may raise (sectors.json,
\* no sector match). Lines 124-126 create a StandardsManager and a task
\* running its monitor(), which nothing cancels; the manager's own index is
\* the "standards_manager" loader above.
SuperBrain ==
    /\ loader = "config" /\ lpc \in {"loaded", "processed"}
    /\ documents < MaxDocuments
    /\ documents' = documents + 1
    /\ \E n \in 0..MaxUnits, raises \in BOOLEAN :
         IF n = 0
         THEN /\ ~raises
              /\ state_sentences' = 0
              /\ UNCHANGED <<faiss_index, indexOnDisk, monitor_tasks, lpc>>
         ELSE LET added == [faiss_index EXCEPT !.ntotal = @ + n]
              IN /\ state_sentences' = n
                 /\ faiss_index' = added
                 /\ indexOnDisk' = write_index(added)
                 /\ monitor_tasks' = IF raises THEN monitor_tasks ELSE monitor_tasks + 1
                 /\ lpc' = IF raises THEN "failed" ELSE "processed"
    /\ UNCHANGED <<loader, metadataOnDisk, indexBefore, lOthers>>

\* super_brain, line 126, for the manager it has just initialised:
\* asyncio.create_task(standards_manager.monitor()).
SMCreateMonitorTask ==
    /\ loader = "standards_manager" /\ lpc = "loaded"
    /\ lpc' = "monitoring"
    /\ monitor_tasks' = monitor_tasks + 1
    /\ UNCHANGED <<loader, indexOnDisk, metadataOnDisk, faiss_index, indexBefore,
                   state_sentences, documents, lOthers>>

\* StandardsManager.monitor, lines 148-153: a change of a PDF of data/base
\* is seen and _rebuild_index runs (lines 91-116): a new empty index and
\* metadata in memory, the chunks of the PDFs now in the directory added,
\* and both files written only `if embeddings`. Parsing or embedding may
\* raise with the index in memory already replaced; the exception ends the
\* monitor task.
SMMonitorRebuild ==
    /\ loader = "standards_manager" /\ lpc \in {"monitoring", "rebuilt"}
    /\ \E chunks \in 0..MaxUnits, raises \in BOOLEAN :
         IF raises
         THEN /\ faiss_index' = IndexFlatL2(DIMENSION)
              /\ lpc' = "rebuild_raised"
              /\ monitor_tasks' = monitor_tasks - 1
              /\ UNCHANGED <<indexOnDisk, metadataOnDisk>>
         ELSE LET built == [IndexFlatL2(DIMENSION) EXCEPT !.ntotal = chunks]
              IN /\ faiss_index' = built
                 /\ indexOnDisk' = IF chunks > 0 THEN write_index(built)
                                   ELSE indexOnDisk
                 /\ metadataOnDisk' = (metadataOnDisk \/ chunks > 0)
                 /\ lpc' = "rebuilt"
                 /\ monitor_tasks' = monitor_tasks
    /\ UNCHANGED <<loader, indexBefore, state_sentences, documents, lOthers>>

\* --------------------- o3/services: sub_agent, validator_agent, classifiers

\* for attempt in range(3)
MaxAttempts == 3

Classifiers == {"classify", "sector_classify"}
RetryKinds == {"sub_agent", "validator_agent"} \cup Classifiers

RECURSIVE Pow(_, _)
Pow(b, e) == IF e = 0 THEN 1 ELSE b * Pow(b, e - 1)

backoff_constant(kind, n) == IF kind \in Classifiers THEN 2 ELSE 4

\* asyncio.sleep(4 ** attempt) in sub_agent and validator_agent,
\* asyncio.sleep(2 ** attempt) in the two classifiers.
backoff(kind, n) == Pow(IF kind \in Classifiers THEN 2 ELSE 4, n)

NoResult == [by |-> "none", found_info |-> {}, verified_result |-> "none"]

\* The dict a coroutine returns, reduced to the fields that tell outcomes apart.
Returned(by, info, verified) ==
    [by |-> by, found_info |-> info, verified_result |-> verified]

\* sub_agent, lines 42-63: the criterion is embedded outside any handler; with
\* no candidate above 0.6 the function returns at once; otherwise the
\* candidates go to OpenAI in batches of 20.
SubAgentStart ==
    /\ rkind = "sub_agent" /\ rpc = "start"
    /\ \E embedded \in BOOLEAN, n \in 0..MaxBatches :
         IF ~embedded
         THEN /\ rpc' = "raised"
              /\ exhausted' = TRUE
              /\ UNCHANGED <<batches, result>>
         ELSE IF n = 0
         THEN /\ rpc' = "returned"
              /\ result' = Returned("sub_agent", {"no_data"}, "No evidence")
              /\ UNCHANGED <<batches, exhausted>>
         ELSE /\ rpc' = "call"
              /\ batches' = n
              /\ UNCHANGED <<result, exhausted>>
    /\ UNCHANGED <<rkind, attempt, attempts, delays, found_info, rOthers>>

\* Lines 78-99: one attempt of the batch's chat completion. Success extends
\* found_info when the answer has "Sentence" lines, and breaks; the third
\* failure appends "Error: ..."; every failure sleeps.
SubAgentAttempt ==
    /\ rkind = "sub_agent" /\ rpc = "call"
    /\ \E ok \in BOOLEAN, batch_info \in BOOLEAN :
         /\ attempts' = Append(attempts, ok)
         /\ IF ok
            THEN /\ found_info' = IF batch_info THEN found_info \cup {"info"}
                                  ELSE found_info
                 /\ rpc' = "break"
                 /\ UNCHANGED exhausted
            ELSE /\ found_info' = IF attempt = MaxAttempts - 1
                                  THEN found_info \cup {"error"} ELSE found_info
                 /\ exhausted' = (exhausted \/ attempt = MaxAttempts - 1)
                 /\ rpc' = "sleep"
    /\ UNCHANGED <<rkind, attempt, batches, delays, result, rOthers>>

\* await asyncio.sleep(...) at the end of the except block, then the next
\* iteration of the attempt loop, or its end.
BackoffSleep ==
    /\ rpc = "sleep"
    /\ delays' = Append(delays, backoff(rkind, attempt))
    /\ IF attempt + 1 < MaxAttempts
       THEN /\ attempt' = attempt + 1
            /\ rpc' = "call"
       ELSE /\ rpc' = "break"
            /\ UNCHANGED attempt
    /\ UNCHANGED <<rkind, batches, attempts, found_info, result, exhausted, rOthers>>

\* Lines 70 and 101-113: the next batch, or the return of the result dict
\* (found_info, or ["No relevant data found."] when it is empty).
SubAgentNextBatch ==
    /\ rkind = "sub_agent" /\ rpc = "break"
    /\ IF batches > 1
       THEN /\ batches' = batches - 1
            /\ attempt' = 0
            /\ attempts' = <<>>
            /\ delays' = <<>>
            /\ rpc' = "call"
            /\ UNCHANGED result
       ELSE /\ rpc' = "returned"
            /\ result' = Returned("sub_agent",
                                  IF found_info = {} THEN {"no_data"} ELSE found_info,
                                  "No evidence")
            /\ UNCHANGED <<batches, attempt, attempts, delays>>
    /\ UNCHANGED <<rkind, found_info, exhausted, rOthers>>

\* base_brain, lines 43-46: a validator_agent task for every sub_agent result
\* with a non-empty found_info (it is never empty).
BaseBrainValidate ==
    /\ rkind = "sub_agent" /\ rpc = "returned"
    /\ rkind' = "validator_agent"
    /\ rpc' = "start"
    /\ attempt' = 0
    /\ attempts' = <<>>
    /\ delays' = <<>>
    /\ found_info' = result.found_info
    /\ UNCHANGED <<batches, result, exhausted, rOthers>>

\* validator_agent, lines 38-105: the returns before the OpenAI call.
\* StandardsManager.query catches its own exceptions.
ValidatorStart ==
    /\ rkind = "validator_agent" /\ rpc = "start"
    /\ \E applicable \in BOOLEAN :
         IF ~applicable
         THEN /\ rpc' = "returned"
              /\ result' = Returned("validator_agent", {"not_applicable"}, "Not Applicable")
         ELSE IF found_info \subseteq {"error", "no_data"}
         THEN /\ rpc' = "returned"
              /\ result' = Returned("validator_agent", {"no_data"}, "No evidence")
         ELSE /\ rpc' = "call"
              /\ UNCHANGED result
    /\ UNCHANGED <<rkind, attempt, batches, attempts, delays, found_info, exhausted, rOthers>>

\* Lines 134-190: one attempt of the validation; the third failure leaves
\* "Validation Error" in the result; every failure sleeps.
ValidatorAttempt ==
    /\ rkind = "validator_agent" /\ rpc = "call"
    /\ \E ok \in BOOLEAN :
         /\ attempts' = Append(attempts, ok)
         /\ IF ok
            THEN /\ result' = Returned("validator_agent", {"validated"}, "validated")
                 /\ rpc' = "break"
                 /\ UNCHANGED exhausted
            ELSE /\ result' = IF attempt = MaxAttempts - 1
                              THEN Returned("validator_agent", {"validation_error"},
                                            "Validation Error")
                              ELSE result
                 /\ exhausted' = (exhausted \/ attempt = MaxAttempts - 1)
                 /\ rpc' = "sleep"
    /\ UNCHANGED <<rkind, attempt, batches, delays, found_info, rOthers>>

\* Lines 192-202: the return after the attempt loop.
ValidatorReturn ==
    /\ rkind = "validator_agent" /\ rpc = "break"
    /\ rpc' = "returned"
    /\ UNCHANGED <<rkind, attempt, batches, attempts, delays, found_info, result,
                   exhausted, rOthers>>

\* base_brain, lines 49-52: the validated results with a non-empty found_info
\* go into state.results.
BaseBrainRecord ==
    /\ rkind = "validator_agent" /\ rpc = "returned"
    /\ rpc' = "recorded"
    /\ UNCHANGED <<rkind, attempt, batches, attempts, delays, found_info, result,
                   exhausted, rOthers>>

\* ReportClassifier.classify and SectorClassifier.classify: success returns
\* the answer, the third failure returns the fallback ("base", "Unknown")
\* without sleeping, an earlier failure sleeps.
ClassifyAttempt ==
    /\ rkind \in Classifiers /\ rpc = "call"
    /\ \E ok \in BOOLEAN :
         /\ attempts' = Append(attempts, ok)
         /\ IF ok
            THEN /\ result' = Returned(rkind, {"classified"}, "none")
                 /\ rpc' = "returned"
                 /\ UNCHANGED exhausted
            ELSE IF attempt = MaxAttempts - 1
            THEN /\ result' = Returned(rkind, {"fallback"}, "none")
                 /\ rpc' = "returned"
                 /\ exhausted' = TRUE
            ELSE /\ rpc' = "sleep"
                 /\ UNCHANGED <<result, exhausted>>
    /\ UNCHANGED <<rkind, attempt, batches, delays, found_info, rOthers>>

\* ----------- agents/monitoring/file_watcher.py, updaters, utils/file_monitor.py

Dirs == {"standards", "requirements"}
Entries == {"watch_files", "update_standards", "monitor_folder"}

\* The directories monitor_folder is running for once the entry function has
\* started. Root watch_files calls monitor_folder(standards, ...) and then
\* monitor_folder(requirements, ...), and the first call never returns
\* (while True); o1 watch_files starts one thread per directory.
WatchedAtStart(kind, entry) ==
    IF entry = "watch_files" /\ kind = "o1" THEN Dirs ELSE {"standards"}

\* Root monitor_folder, lines 59-70, has the polling loop; o1's, lines 57-63,
\* only sleeps while the observer is alive.
HasPolling(kind) == kind = "root"

\* What a call of the registered callback may do. The callbacks of watch_files
\* call update_standards / update_requirements, which start a monitor of
\* their own and do not return while it runs (o1 update_requirements returns
\* when its resource check or its first parse fails); the callback of
\* update_standards calls index_standards and returns.
CallbackOutcomes(kind, entry, d) ==
    IF entry = "watch_files"
    THEN (IF kind = "o1" /\ d = "requirements" THEN {"returns", "blocks"} ELSE {"blocks"})
    ELSE {"returns"}

\* The waiting times w, kept only for the files that are owed a callback and
\* have no event in the queue.
Unserved(o, q, w) ==
    [d \in Dirs |-> [f \in Files |-> IF f \in o[d] \ q[d] THEN w[d][f] ELSE 0]]

\* watch_files, update_standards or monitor_folder gets as far as
\* observer.start() for the directories it monitors.
MonitorStart ==
    /\ mpc = "start"
    /\ mpc' = "running"
    /\ mobs' = [d \in Dirs |->
                  IF d \in WatchedAtStart(mkind, mentry) THEN "idle" ELSE "none"]
    /\ mpoll' = [d \in Dirs |->
                   IF d \in WatchedAtStart(mkind, mentry) /\ HasPolling(mkind)
                   THEN "sleep" ELSE "none"]
    /\ UNCHANGED <<mkind, mentry, mlast, mscan, mqueue, owed, waited, mOthers>>

\* A file of a directory is created or modified; the platform may or may not
\* hand an event to the directory's observer.
MonitoredFileChange(d, f) ==
    /\ mpc = "running"
    /\ \E delivered \in BOOLEAN :
         /\ delivered => mobs[d] # "none"
         /\ owed' = [owed EXCEPT ![d] = @ \cup {f}]
         /\ mqueue' = [mqueue EXCEPT ![d] = IF delivered THEN @ \cup {f} ELSE @]
    /\ waited' = Unserved(owed', mqueue', waited)
    /\ UNCHANGED <<mkind, mentry, mpc, mobs, mpoll, mlast, mscan, mOthers>>

\* FileEventHandler.on_created / on_modified: the observer thread takes an
\* event from its queue and calls callback(event.src_path).
HandlerCallback(d, f) ==
    /\ mobs[d] = "idle" /\ f \in mqueue[d]
    /\ mqueue' = [mqueue EXCEPT ![d] = @ \ {f}]
    /\ owed' = [owed EXCEPT ![d] = @ \ {f}]
    /\ waited' = Unserved(owed', mqueue', waited)
    /\ mobs' = [mobs EXCEPT ![d] = "callback"]
    /\ UNCHANGED <<mkind, mentry, mpc, mpoll, mlast, mscan, mOthers>>

\* The callback returns to the observer thread, or turns out not to return.
HandlerCallbackEnd(d) ==
    /\ mobs[d] = "callback"
    /\ \E outcome \in CallbackOutcomes(mkind, mentry, d) :
         mobs' = [mobs EXCEPT ![d] = IF outcome = "returns" THEN "idle" ELSE "blocked"]
    /\ UNCHANGED <<mkind, mentry, mpc, mpoll, mlast, mscan, mqueue, owed, waited, mOthers>>

\* One second passes: each polling loop in time.sleep(1) wakes and reads the
\* clock. A loop whose interval has passed scans before the next second.
Second ==
    /\ mpc = "running"
    /\ \A d \in Dirs : mpoll[d] # "scan" /\ (mpoll[d] = "sleep" => mlast[d] < UpdateInterval)
    /\ mlast' = [d \in Dirs |-> IF mpoll[d] = "sleep" THEN mlast[d] + 1 ELSE mlast[d]]
    /\ waited' = [d \in Dirs |-> [f \in Files |->
                    IF f \notin owed[d] \ mqueue[d] THEN 0
                    ELSE IF waited[d][f] <= UpdateInterval THEN waited[d][f] + 1
                    ELSE waited[d][f]]]
    /\ UNCHANGED <<mkind, mentry, mpc, mobs, mpoll, mscan, mqueue, owed, mOthers>>

\* Root monitor_folder, lines 63-65: the interval has passed, os.listdir.
ScanStart(d) ==
    /\ mpoll[d] = "sleep" /\ mlast[d] >= UpdateInterval
    /\ mpoll' = [mpoll EXCEPT ![d] = "scan"]
    /\ mscan' = [mscan EXCEPT ![d] = Files]
    /\ UNCHANGED <<mkind, mentry, mpc, mobs, mlast, mqueue, owed, waited, mOthers>>

\* Lines 65-68: callback(file_path) for the next file, in the loop's thread.
ScanCallback(d, f) ==
    /\ mpoll[d] = "scan" /\ f \in mscan[d]
    /\ mscan' = [mscan EXCEPT ![d] = @ \ {f}]
    /\ owed' = [owed EXCEPT ![d] = @ \ {f}]
    /\ waited' = Unserved(owed', mqueue, waited)
    /\ \E outcome \in CallbackOutcomes(mkind, mentry, d) :
         mpoll' = [mpoll EXCEPT ![d] = IF outcome = "returns" THEN "scan" ELSE "blocked"]
    /\ UNCHANGED <<mkind, mentry, mpc, mobs, mlast, mqueue, mOthers>>

\* Line 69: last_check = current_time.
ScanEnd(d) ==
    /\ mpoll[d] = "scan" /\ mscan[d] = {}
    /\ mpoll' = [mpoll EXCEPT ![d] = "sleep"]
    /\ mlast' = [mlast EXCEPT ![d] = 0]
    /\ UNCHANGED <<mkind, mentry, mpc, mobs, mscan, mqueue, owed, waited, mOthers>>

\* The watchdog observers started for directory d and not stopped. The one
\* of MonitorStart runs from observer.start() on. A thread that is "blocked"
\* is inside update_standards / update_requirements, whose monitor_folder
\* call (root, line 54-57; o1, the monitor thread it starts and joins) has
\* started one more Observer on the same directory; none is ever stopped.
Observers(d) ==
    (IF mobs[d] # "none" THEN 1 ELSE 0)
    + (IF mobs[d] = "blocked" THEN 1 ELSE 0)
    + (IF mpoll[d] = "blocked" THEN 1 ELSE 0)

\* ------------------- search_index, search_standards, StandardsManager.query

SearcherKinds == {"search_index", "search_standards", "query"}

Points == 0..MaxCoord

\* The query text has no sentence: tokenize_and_embed returns no result.
NoEmbedding == 0 - 1

\* The squared L2 distance IndexFlatL2 reports.
Distance(v, q) == (v - q) * (v - q)

\* The distance faiss reports with the label -1: more than any real one.
FLT_MAX == MaxCoord * MaxCoord + 1

\* The metadata list a sidecar of m records unpickles to: record i describes
\* the vector whose label is i.
RecordsOf(m) == [i \in 1..m |-> i - 1]

\* index.search(query, k) of an IndexFlatL2 holding the vectors vecs: k hits,
\* the nearest vectors first by their labels 0..ntotal-1, and where the
\* index holds fewer than k vectors the label -1 with the distance FLT_MAX
\* in the places left over.  The order of vectors at one distance is not
\* fixed by faiss.
IndexSearch(vecs, q, k) ==
    LET n == Len(vecs)
        found == Min(n, k)
        dist(l) == Distance(vecs[l + 1], q)
    IN {hits \in [1..k -> [label : (0 - 1)..(n - 1), distance : 0..FLT_MAX]] :
          /\ \A i \in 1..found :
                /\ hits[i].label >= 0
                /\ hits[i].distance = dist(hits[i].label)
          /\ \A i, j \in 1..found :
                i < j => /\ hits[i].label # hits[j].label
                         /\ hits[i].distance <= hits[j].distance
          /\ \A l \in 0..(n - 1) :
                (\A i \in 1..found : hits[i].label # l)
                    => \A i \in 1..found : hits[i].distance <= dist(l)
          /\ \A i \in (found + 1)..k :
                hits[i] = [label |-> 0 - 1, distance |-> FLT_MAX]}

\* list[i] of Python: a negative i counts from the end; the position taken
\* lies outside 0..len-1 where the subscript raises IndexError.
PyIndex(len, i) == IF i < 0 THEN i + len ELSE i

Match(rec, d) == [record |-> rec, distance |-> d]

\* search_index, lines 78-86: every hit whose label is below len(metadata)
\* is looked up with metadata[idx]; the label -1 passes that test.
search_index(metadata, hits) ==
    LET len == Len(metadata)
        kept == SelectSeq(hits, LAMBDA h : h.label < len)
        at(h) == PyIndex(len, h.label)
    IN IF \E i \in 1..Len(kept) : at(kept[i]) \notin 0..(len - 1)
       THEN [raised |-> TRUE, results |-> <<>>]
       ELSE [raised |-> FALSE,
             results |-> [i \in 1..Len(kept) |->
                            Match(metadata[at(kept[i]) + 1], kept[i].distance)]]

\* StandardsManager.query, lines 133-141: the hits with a label >= 0 are
\* looked up; any exception is logged and [] returned.
query(metadata, hits) ==
    LET kept == SelectSeq(hits, LAMBDA h : h.label >= 0)
    IN IF \E i \in 1..Len(kept) : kept[i].label >= Len(metadata)
       THEN <<>>
       ELSE [i \in 1..Len(kept) |->
               Match(metadata[kept[i].label + 1], kept[i].distance)]

\* search_index(index, query_embedding, metadata_path, k): pickle.load of a
\* missing metadata file raises.
SearchIndexCall ==
    /\ searcher = "search_index"
    /\ spc = "start"
    /\ IF ~sidecar.exists
       THEN /\ spc' = "raised"
            /\ search_results' = <<>>
       ELSE \E hits \in IndexSearch(entries.content, query_embedding, top_k) :
              LET out == search_index(sidecar.content, hits)
              IN /\ spc' = (IF out.raised THEN "raised" ELSE "returned")
                 /\ search_results' = out.results
    /\ UNCHANGED <<searcher, entries, sidecar, query_embedding, top_k, sOthers>>

\* search_standards(query, None, k): [] where either file is missing or the
\* query yields no embedding, else search_index over the index read.
SearchStandardsCall ==
    /\ searcher = "search_standards"
    /\ spc = "start"
    /\ IF ~(entries.exists /\ sidecar.exists) \/ query_embedding = NoEmbedding
       THEN /\ spc' = "returned"
            /\ search_results' = <<>>
       ELSE \E hits \in IndexSearch(entries.content, query_embedding, top_k) :
              LET out == search_index(sidecar.content, hits)
              IN /\ spc' = (IF out.raised THEN "raised" ELSE "returned")
                 /\ search_results' = out.results
    /\ UNCHANGED <<searcher, entries, sidecar, query_embedding, top_k, sOthers>>

\* StandardsManager.query(text, top_k) over self.index and self.metadata.
StandardsManagerQuery ==
    /\ searcher = "query"
    /\ spc = "start"
    /\ \E hits \in IndexSearch(entries.content, query_embedding, top_k) :
          search_results' = query(sidecar.content, hits)
    /\ spc' = "returned"
    /\ UNCHANGED <<searcher, entries, sidecar, query_embedding, top_k, sOthers>>

\* ------------- scoring: o1 extract_data, o1 validate_data, o3 sub_agent

RankerKinds == {"extract_data", "validate_data", "sub_agent"}

\* Scores are hundredths: 100 is the similarity 1.0.
Sims == {20, 60, 90}

\* How many of the criterion's tokens and related terms a text holds.
Counts == {0, 1, 7}

\* similarity_threshold of extract_data, of validate_data, and the cut of
\* sub_agent's candidate selection.
ExtractThreshold == 60
ValidateThreshold == 25
SubAgentThreshold == 60
ExactScore == 100
TermWeight == 15
MatchLimit == 10
TopCandidates == 100

similarity_threshold(kind) ==
    CASE kind = "extract_data"  -> ExtractThreshold
      [] kind = "validate_data" -> ValidateThreshold
      [] OTHER                  -> SubAgentThreshold

Scored(i, sc) == [id |-> i, score |-> sc]

\* extract_data, lines 103-134 and 152-183: the pages in order.  A page that
\* holds the text verbatim and a value beside it ends the scan with the
\* score 1.0; any other page is appended with its cosine similarity where
\* that exceeds the threshold or the page shares a token or a related term.
RECURSIVE ScanPages(_, _, _)
ScanPages(pages, i, acc) ==
    IF i > Len(pages) THEN acc
    ELSE LET p == pages[i] IN
         IF p.exact /\ p.regex THEN Append(acc, Scored(i, ExactScore))
         ELSE IF p.sim > ExtractThreshold \/ p.count > 0
              THEN ScanPages(pages, i + 1, Append(acc, Scored(i, p.sim)))
              ELSE ScanPages(pages, i + 1, acc)

\* extract_data, lines 73-186: every result of the index search is a match
\* of similarity 1.0; without one the pages are scanned for the criterion,
\* and for the description where that found nothing.
extract_matches(pages, dpages, rag) ==
    IF rag # <<>> THEN [i \in 1..Len(rag) |-> Scored(rag[i], ExactScore)]
    ELSE LET found == ScanPages(pages, 1, <<>>)
         IN IF dpages # <<>> /\ found = <<>> THEN ScanPages(dpages, 1, <<>>)
            ELSE found

\* sorted(matches, key=similarity, reverse=True): descending and stable, so
\* matches of one score keep the order they were appended in.
RECURSIVE InsertDesc(_, _)
InsertDesc(x, s) ==
    IF s = <<>> THEN <<x>>
    ELSE IF s[Len(s)].score >= x.score THEN Append(s, x)
         ELSE Append(InsertDesc(x, SubSeq(s, 1, Len(s) - 1)), s[Len(s)])

RECURSIVE SortedDesc(_)
SortedDesc(s) ==
    IF s = <<>> THEN <<>>
    ELSE InsertDesc(s[Len(s)], SortedDesc(SubSeq(s, 1, Len(s) - 1)))

Truncate(s, n) == SubSeq(s, 1, Min(Len(s), n))

\* validate_data, lines 142-165: the index hits whose similarity exceeds the
\* threshold, in the order the search returned them.
RagMatches(sentences, rag) ==
    LET kept == SelectSeq(rag, LAMBDA i : sentences[i].sim > ValidateThreshold)
    IN [j \in 1..Len(kept) |-> Scored(kept[j], sentences[kept[j]].sim)]

\* validate_data, lines 189-210 and 234-256: a sentence holding the criterion
\* verbatim scores 1.0; another is a match where its similarity exceeds the
\* threshold or it shares a token or term, at max(similarity, 0.15 * shared).
RECURSIVE AdvancedMatches(_, _)
AdvancedMatches(sentences, i) ==
    IF i > Len(sentences) THEN <<>>
    ELSE LET c == sentences[i]
             rest == AdvancedMatches(sentences, i + 1)
         IN IF c.exact THEN <<Scored(i, ExactScore)>> \o rest
            ELSE IF c.sim > ValidateThreshold \/ c.count >= 1
                 THEN <<Scored(i, Max(c.sim, c.count * TermWeight))>> \o rest
                 ELSE rest

\* validate_data, lines 139-261: the index hits, then the cache entries that
\* could be scored, then the texts where nothing matched so far; sorted and
\* cut to ten.
standard_matches(sentences, rag, cache, texts, raises) ==
    LET a == RagMatches(sentences, rag)
        b == IF cache /\ ~raises THEN a \o AdvancedMatches(sentences, 1) ELSE a
        c == IF b = <<>> /\ texts THEN AdvancedMatches(sentences, 1) ELSE b
    IN Truncate(SortedDesc(c), MatchLimit)

\* np.argsort(similarities): a permutation that puts the similarities in
\* ascending order; the order among equal ones depends on the sort numpy
\* picks for the array.
ArgSorts(sentences) ==
    LET n == Len(sentences)
    IN {perm \in [1..n -> 1..n] :
          /\ \A i, j \in 1..n : i # j => perm[i] # perm[j]
          /\ \A i, j \in 1..n : i < j => sentences[perm[i]].sim <= sentences[perm[j]].sim}

Reverse(s) == [i \in 1..Len(s) |-> s[Len(s) + 1 - i]]
LastN(s, n) == SubSeq(s, Max(1, Len(s) - n + 1), Len(s))

\* sub_agent, lines 46-51: the last 100 of the argsort, reversed, of which
\* those above 0.6 are kept.
candidates(sentences, perm) ==
    LET candidate_indices == Reverse(LastN(perm, TopCandidates))
        kept == SelectSeq(candidate_indices,
                          LAMBDA i : sentences[i].sim > SubAgentThreshold)
    IN [j \in 1..Len(kept) |-> Scored(kept[j], sentences[kept[j]].sim)]

ExtractDataCall ==
    /\ ranker = "extract_data"
    /\ kpc = "start"
    /\ matches' = extract_matches(pool, dpool, rag_results)
    /\ kpc' = "returned"
    /\ UNCHANGED <<ranker, pool, dpool, rag_results, standards_cache,
                   standards_texts, entry_raises, kOthers>>

ValidateDataCall ==
    /\ ranker = "validate_data"
    /\ kpc = "start"
    /\ matches' = standard_matches(pool, rag_results, standards_cache,
                                   standards_texts, entry_raises)
    /\ kpc' = "returned"
    /\ UNCHANGED <<ranker, pool, dpool, rag_results, standards_cache,
                   standards_texts, entry_raises, kOthers>>

SubAgentSelect ==
    /\ ranker = "sub_agent"
    /\ kpc = "start"
    /\ \E perm \in ArgSorts(pool) : matches' = candidates(pool, perm)
    /\ kpc' = "returned"
    /\ UNCHANGED <<ranker, pool, dpool, rag_results, standards_cache,
                   standards_texts, entry_raises, kOthers>>

\* ------- results: root extract_data, retry_extraction, o3 generate_report

OutcomeKinds == {"extract_data", "retry_extraction", "generate_report"}

\* What one search of the report for a criterion did: found matches, ran and
\* found none, raised, or was not run (no index to search, resources short).
SearchResults == {"matches", "no_match", "failed", "not_run"}

\* A result as its reader sees it, the criterion's name left out: whether it
\* holds matches, its status key, and the value and reason of a report row.
Entry(has, status, value, reason) ==
    [matches |-> has, status |-> status, value |-> value, reason |-> reason]

NoEntry == Entry(FALSE, "pending", "", "")

\* root extract_data, lines 29-38: results[0] of search_report, and the
\* dict with no matches where search_report returned no result or raised.
ExtractionDict(did) ==
    CASE did = "matches"  -> Entry(TRUE, "", "", "")
      [] did = "no_match" -> Entry(FALSE, "", "", "")
      [] did = "not_run"  -> Entry(FALSE, "", "", "")
      [] OTHER            -> Entry(FALSE, "", "", "")

\* retry_extraction, lines 29-44: an extraction with matches is returned as
\* it is; otherwise extract_data is called once more, and its result is
\* returned where it has matches, the dict flagged "Failed" where not.
retry_extraction(extraction, again) ==
    IF extraction.matches THEN extraction
    ELSE IF ExtractionDict(again).matches THEN ExtractionDict(again)
         ELSE Entry(FALSE, "Failed", "", "")

\* sub_agent, lines 54-63 and 101-113: the kind of line found_info holds.
SubAgentInfo(did) ==
    CASE did = "matches" -> "info"
      [] did = "failed"  -> "error"
      [] OTHER           -> "no_data"

\* validator_agent, lines 38-51 and 91-103: a criterion not relevant to the
\* report type is marked "Not processed:"; findings that are all errors or
\* "No relevant data" become "No relevant data found.".
ValidatedInfo(info, irrelevant) ==
    IF irrelevant THEN "not_processed"
    ELSE IF info \in {"error", "no_data"} THEN "no_data"
         ELSE "info"

\* generate_report, lines 76-146: the row of a criterion.  No result, or
\* lines that are all "Error:" or "Not processed:", give the row "No data
\* found."; a line the pattern does not match is copied with the reason
\* "Unrecognized format".
ReportRow(info) ==
    CASE info \in {"absent", "error", "not_processed"} ->
           Entry(FALSE, "", "No data found.", "No data found")
      [] info = "no_data" ->
           Entry(FALSE, "", "No relevant data found.", "Unrecognized format")
      [] OTHER -> Entry(TRUE, "", "sentence", "reason")

\* extract_data(report_path, c) returns.
ExtractDataReturn(c) ==
    /\ okind = "extract_data"
    /\ yielded[c] = NoEntry
    /\ yielded' = [yielded EXCEPT ![c] = ExtractionDict(searches[c][1])]
    /\ UNCHANGED <<okind, searches, not_relevant, oOthers>>

\* retry_extraction(report_path, extract_data(report_path, c)) returns.
RetryExtraction(c) ==
    /\ okind = "retry_extraction"
    /\ yielded[c] = NoEntry
    /\ yielded' = [yielded EXCEPT ![c] =
                   retry_extraction(ExtractionDict(searches[c][1]),
                                    searches[c][Len(searches[c])])]
    /\ UNCHANGED <<okind, searches, not_relevant, oOthers>>

\* generate_report writes the row of criterion c from the results that
\* sub_agent and validator_agent left for it, if any.
GenerateReportRow(c) ==
    /\ okind = "generate_report"
    /\ yielded[c] = NoEntry
    /\ yielded' = [yielded EXCEPT ![c] =
                   IF searches[c] = <<>> THEN ReportRow("absent")
                   ELSE ReportRow(ValidatedInfo(SubAgentInfo(searches[c][1]),
                                                c \in not_relevant))]
    /\ UNCHANGED <<okind, searches, not_relevant, oOthers>>

\* ------------ the report index: index_report, search_report, the cleaner

\* The files of data/reports the three functions name.
ReportFiles == {"index.faiss", "metadata.pkl", "temp_index.faiss", "temp_metadata.pkl"}

\* The paths index_report builds (lines 44-45), and the paths search_report
\* (lines 32-33) and clean_report_index (lines 26-27) build.
IndexerPaths == [index |-> "index.faiss", metadata |-> "metadata.pkl"]
SearcherPaths == [index |-> "temp_index.faiss", metadata |-> "temp_metadata.pkl"]
CleanerPaths == [index |-> "temp_index.faiss", metadata |-> "temp_metadata.pkl"]

\* How a call of index_report may go: the path is no PDF that exists, the
\* PDF yields no page or no sentence, add_to_index raises at one of its
\* three steps, or all goes well.  check_resources returns a dict, which is
\* never falsy, so line 38 does not refuse.
ReportOutcomes == {"invalid_path", "no_pages", "no_embeddings", "ok"}
                      \cup (AddFailures \ {"none"})

\* The files index_report has written when it returns: none before
\* initialize_index, the index from initialize_index on, the metadata once
\* add_to_index has dumped it.
WrittenBy(outcome) ==
    CASE outcome = "invalid_path" -> {}
      [] outcome = "ok"           -> {IndexerPaths.index, IndexerPaths.metadata}
      [] OTHER                    -> {IndexerPaths.index}

\* index_report(report_path), lines 32-82.
IndexReport ==
    /\ rlast # "off"
    /\ \E outcome \in ReportOutcomes :
          /\ reports_dir' = reports_dir \cup WrittenBy(outcome)
          /\ indexed' = (IF outcome = "ok" THEN "True" ELSE "False")
    /\ rlast' = "index_report"
    /\ UNCHANGED <<searched, cleaned, pOthers>>

\* search_report(criteria, k), lines 31-48: [] unless both of its files
\* exist and check_resources allows the search.
SearchReportOpen ==
    /\ rlast # "off"
    /\ IF {SearcherPaths.index, SearcherPaths.metadata} \subseteq reports_dir
       THEN searched' \in {"refused", "searched"}
       ELSE searched' = "no_index"
    /\ rlast' = "search_report"
    /\ UNCHANGED <<reports_dir, indexed, cleaned, pOthers>>

\* clean_report_index(), lines 25-50: each of its two files that exists is
\* removed unless os.remove raises; True where one was removed.
CleanReportIndex ==
    /\ rlast # "off"
    /\ \E removable \in SUBSET {CleanerPaths.index, CleanerPaths.metadata} :
          LET removed == removable \cap reports_dir
          IN /\ reports_dir' = reports_dir \ removed
             /\ cleaned' = (IF removed # {} THEN "True" ELSE "False")
    /\ rlast' = "clean_report_index"
    /\ UNCHANGED <<indexed, searched, pOthers>>

\* ------------------------ execute_workflow (root and o1) and run_workflow

WorkflowKinds == {"root", "o1"}

\* bool(v) of Python for the values a workflow function returns.
Truthy(v) == v = "True"

\* What the steps of root execute_workflow before the extraction may meet:
\* a path that does not exist (line 37), a failed initialize_system (line
\* 45), no requirement found (line 62), an exception (line 101), or none.
RootStartOutcomes == {"invalid_input", "no_agents", "no_requirements", "raises", "ok"}

\* What run_workflow's steps before execute_workflow may meet (o1/main.py,
\* lines 36-52): resources short, requirements not parsed, report not
\* indexed, an exception, or none.
CallerOutcomes == {"not_compliant", "parse_failed", "index_failed", "raises", "ok"}

\* o1 run_workflow, lines 35-52, up to the call of execute_workflow.
RunWorkflowStart ==
    /\ wkind = "o1" /\ wfpc = "caller"
    /\ \E outcome \in CallerOutcomes :
          IF outcome = "ok"
          THEN wfpc' = "start" /\ run_workflow' = run_workflow
          ELSE wfpc' = "done" /\ run_workflow' = "False"
    /\ UNCHANGED <<wkind, requirements, wf_results, results_json, wf_success, temp_files, wf_initialized, fOthers>>

\* The files search_report reads and clean_report_index removes; the root
\* index_report (not in src/) is taken to write them, as search_report and
\* test_reports_rag.py expect.
TempFiles == {CleanerPaths.index, CleanerPaths.metadata}

\* clean_report_index, lines 25-50, where os.remove succeeds.
clean_report_index(files) == files \ TempFiles

\* Whether initialize_system had returned the agents when the outcome came
\* about: not for a missing path or a failed initialisation, always for the
\* requirements fetched after it, either way for an exception.
InitializedAt(outcome) ==
    IF outcome \in {"invalid_input", "no_agents"} THEN {FALSE}
    ELSE IF outcome = "raises" THEN BOOLEAN
    ELSE {TRUE}

\* root execute_workflow, lines 36-68: the checks, initialize_system (which
\* indexes the report), the requirements and concurrent_extract. The return
\* of line 64 (no requirement) is the only one inside the try block that
\* leaves without clean_report_index; the handler of line 101 calls it.
RootWorkflowStart ==
    /\ wkind = "root" /\ wfpc = "start"
    /\ \E outcome \in RootStartOutcomes :
          /\ outcome = "no_requirements" => requirements = 0
          /\ outcome = "ok" => requirements > 0
          /\ \E initialized \in InitializedAt(outcome) :
                LET indexed_files == IF initialized THEN temp_files \cup TempFiles
                                     ELSE temp_files
                IN /\ wf_initialized' = initialized
                   /\ temp_files' = IF outcome = "raises"
                                    THEN clean_report_index(indexed_files)
                                    ELSE indexed_files
          /\ IF outcome = "ok"
             THEN wfpc' = "loop" /\ wf_success' = wf_success
             ELSE wfpc' = "returned" /\ wf_success' = "False"
    /\ UNCHANGED <<wkind, requirements, wf_results, results_json, run_workflow, fOthers>>

\* o1 execute_workflow, lines 131-138: load_requirements and
\* load_cached_texts, outside any handler.
O1WorkflowStart ==
    /\ wkind = "o1" /\ wfpc = "start"
    /\ \E raises \in BOOLEAN : wfpc' = (IF raises THEN "raised" ELSE "loop")
    /\ UNCHANGED <<wkind, requirements, wf_results, results_json, wf_success, run_workflow, temp_files, wf_initialized, fOthers>>

\* One requirement: root lines 72-88 (validate_data or generate_summary may
\* raise into the handler of line 101, which returns False), o1 lines
\* 141-177 (extract_data and validate_data handle their own exceptions).
WorkflowRequirement ==
    /\ wfpc = "loop" /\ wf_results < requirements
    /\ \E raises \in BOOLEAN :
          /\ raises => wkind = "root"
          /\ IF raises
             THEN /\ wfpc' = "returned" /\ wf_success' = "False"
                  /\ wf_results' = wf_results
             ELSE /\ wfpc' = wfpc /\ wf_success' = wf_success
                  /\ wf_results' = wf_results + 1
          /\ temp_files' = IF raises THEN clean_report_index(temp_files) ELSE temp_files
    /\ UNCHANGED <<wkind, requirements, results_json, run_workflow, wf_initialized, fOthers>>

\* Writing results.json: root lines 91-99 return True after the dump and
\* False from the handler where it raised; o1 lines 183-191 log a failure
\* and fall off the end of the function, which returns None.
WorkflowWrite ==
    /\ wfpc = "loop" /\ wf_results = requirements
    /\ \E raises \in BOOLEAN :
          /\ results_json' = (IF raises THEN "partial" ELSE "written")
          /\ wf_success' = (IF wkind = "o1" THEN "None"
                            ELSE IF raises THEN "False" ELSE "True")
    /\ temp_files' = IF wkind = "root" THEN clean_report_index(temp_files) ELSE temp_files
    /\ wfpc' = "returned"
    /\ UNCHANGED <<wkind, requirements, wf_results, run_workflow, wf_initialized, fOthers>>

\* o1 run_workflow, lines 55-67: success = execute_workflow(...), or the
\* exception it raised; `if not success` returns False.
RunWorkflowEnd ==
    /\ wkind = "o1" /\ wfpc \in {"returned", "raised"}
    /\ run_workflow = "none"
    /\ run_workflow' = (IF wfpc = "returned" /\ Truthy(wf_success) THEN "True" ELSE "False")
    /\ wfpc' = "done"
    /\ UNCHANGED <<wkind, requirements, wf_results, results_json, wf_success, temp_files, wf_initialized, fOthers>>

\* ------------------ o3/main.py: base_brain tasks and the OpenAI semaphores
\* main, lines 43-49, runs one base_brain task per category of
\* state.base_criteria; each creates a sub_agent task per criterion, gathers
\* them, then creates a validator_agent task per result (found_info is never
\* empty: a sub_agent without findings returns ["No relevant data found."]).
\* sub_agent.py:22 and validator_agent.py:17 each create a module-level
\* asyncio.Semaphore(5), and each agent holds its own module's semaphore
\* for the time of one OpenAI request.

Categories == 1..NumCategories
SemaphoreValue == 5
Modules == {"sub_agent", "validator_agent"}

\* The module whose agents base_brain b has running.
ModuleOf(b) == IF brain[b] = "sub_agents" THEN "sub_agent" ELSE "validator_agent"

\* The OpenAI requests in flight: agents inside `async with OPENAI_SEMAPHORE`.
InFlight == {bc \in Categories \X Criteria : agent[bc[1]][bc[2]] = "request"}

\* main, lines 44-47, and base_brain, lines 36-40: the tasks are created.
BaseBrainTasks ==
    /\ \A b \in Categories : brain[b] = "off"
    /\ brain' = [b \in Categories |-> "sub_agents"]
    /\ agent' = [b \in Categories |-> [c \in Criteria |-> "pending"]]
    /\ UNCHANGED <<OPENAI_SEMAPHORE, bOthers>>

\* `async with OPENAI_SEMAPHORE` (sub_agent line 80, validator_agent line
\* 136): acquire waits while the value is 0, then the request is sent.
SemaphoreAcquire(b, c) ==
    /\ brain[b] \in {"sub_agents", "validators"}
    /\ agent[b][c] = "pending"
    /\ OPENAI_SEMAPHORE[ModuleOf(b)] > 0
    /\ OPENAI_SEMAPHORE' = [OPENAI_SEMAPHORE EXCEPT ![ModuleOf(b)] = @ - 1]
    /\ agent' = [agent EXCEPT ![b][c] = "request"]
    /\ UNCHANGED <<brain, bOthers>>

\* What follows a request: the response ends the attempts ("done", or
\* "pending" where sub_agent has a further batch to send), an exception
\* leads to asyncio.sleep(4 ** attempt) and the next attempt or the end.
RequestOutcomes(module) ==
    {"done", "sleeping"} \cup (IF module = "sub_agent" THEN {"pending"} ELSE {})

\* The response or the exception of the request leaves the `async with`
\* block, which releases the semaphore.
SemaphoreRelease(b, c) ==
    /\ agent[b][c] = "request"
    /\ OPENAI_SEMAPHORE' = [OPENAI_SEMAPHORE EXCEPT ![ModuleOf(b)] = @ + 1]
    /\ \E outcome \in RequestOutcomes(ModuleOf(b)) :
         agent' = [agent EXCEPT ![b][c] = outcome]
    /\ UNCHANGED <<brain, bOthers>>

\* sub_agent line 99, validator_agent line 190: the sleep ends; the loop
\* takes its next attempt, or has none left.
AgentSleepEnd(b, c) ==
    /\ agent[b][c] = "sleeping"
    /\ \E again \in BOOLEAN :
         agent' = [agent EXCEPT ![b][c] = IF again THEN "pending" ELSE "done"]
    /\ UNCHANGED <<brain, OPENAI_SEMAPHORE, bOthers>>

\* An agent that returns without a request: sub_agent lines 54-63 (no
\* candidate), validator_agent lines 73-103 (no sector priority, no usable
\* info).
AgentReturnsEarly(b, c) ==
    /\ brain[b] \in {"sub_agents", "validators"}
    /\ agent[b][c] = "pending"
    /\ agent' = [agent EXCEPT ![b][c] = "done"]
    /\ UNCHANGED <<brain, OPENAI_SEMAPHORE, bOthers>>

\* base_brain, lines 41-46: gather returns once every sub_agent has, and the
\* validator tasks are created.
BaseBrainValidators(b) ==
    /\ brain[b] = "sub_agents"
    /\ \A c \in Criteria : agent[b][c] = "done"
    /\ brain' = [brain EXCEPT ![b] = "validators"]
    /\ agent' = [agent EXCEPT ![b] = [c \in Criteria |-> "pending"]]
    /\ UNCHANGED <<OPENAI_SEMAPHORE, bOthers>>

\* base_brain, lines 47-52.
BaseBrainEnd(b) ==
    /\ brain[b] = "validators"
    /\ \A c \in Criteria : agent[b][c] = "done"
    /\ brain' = [brain EXCEPT ![b] = "returned"]
    /\ UNCHANGED <<agent, OPENAI_SEMAPHORE, bOthers>>

\* ------- o2 build_database.py: the cached hash of one file, step by step
\* initialize_database's pass over one standards file (lines 406-422) in
\* the steps between which the file can be rewritten: the check of the
\* cached hash, split_standards_pdf, embed_sections and cache_file_hash each
\* read the file or the store when they run. A content and its hash are
\* told by one version number.

Versions == 1..MaxVersions
NoChroma == [exists |-> FALSE, docs |-> [i \in ParaIds |-> 0]]

\* get_file_hash, lines 69-89: the hash of the file as it is at the call.
file_hash == pdf

\* The standards PDF is replaced by another content.
PdfRewritten ==
    /\ hpc # "off"
    /\ pdf < MaxVersions
    /\ pdf' = pdf + 1
    /\ UNCHANGED <<chroma, hash_pkl, sections, hpc, houtcome, hOthers>>

\* initialize_database, lines 408-411, over check_existing_collection,
\* lines 288-310: reuse when the collection is listed and the cached hash
\* is the file's; an exception in the check answers False.
CheckExistingCollection ==
    /\ hpc = "idle"
    /\ \E raises \in BOOLEAN :
         IF ~raises /\ chroma.exists /\ hash_pkl # 0 /\ hash_pkl = file_hash
         THEN hpc' = "idle" /\ houtcome' = "reused"
         ELSE hpc' = "split" /\ houtcome' = "none"
    /\ UNCHANGED <<pdf, chroma, hash_pkl, sections, hOthers>>

\* Line 413: split_standards_pdf reads the file; its exception ends the run
\* (lines 133-135 and 431-433).
SplitStandardsPdf ==
    /\ hpc = "split"
    /\ \E raises \in BOOLEAN :
         IF raises
         THEN sections' = sections /\ hpc' = "idle" /\ houtcome' = "raised"
         ELSE sections' = pdf /\ hpc' = "embed" /\ houtcome' = houtcome
    /\ UNCHANGED <<pdf, chroma, hash_pkl, hOthers>>

\* Line 418 over embed_sections, lines 198-276: get_or_create_collection,
\* then collection.add of the paragraphs with a valid embedding (one batch
\* for the paragraph counts modelled); ChromaDB keeps the entry an id
\* already has. An exception of the add ends the run.
EmbedSections ==
    /\ hpc = "embed"
    /\ \E valid \in SUBSET ParaIds, raises \in BOOLEAN :
         IF raises
         THEN /\ chroma' = [chroma EXCEPT !.exists = TRUE]
              /\ hpc' = "idle" /\ houtcome' = "raised"
         ELSE /\ chroma' = [exists |-> TRUE,
                            docs |-> [i \in ParaIds |->
                                        IF i \in valid /\ chroma.docs[i] = 0
                                        THEN sections ELSE chroma.docs[i]]]
              /\ hpc' = "cache" /\ houtcome' = houtcome
    /\ UNCHANGED <<pdf, hash_pkl, sections, hOthers>>

\* Line 421 over cache_file_hash, lines 320-328: the hash of the file as it
\* is now is written; an exception ends the run.
CacheFileHash ==
    /\ hpc = "cache"
    /\ \E raises \in BOOLEAN :
         IF raises
         THEN hash_pkl' = hash_pkl /\ houtcome' = "raised"
         ELSE hash_pkl' = file_hash /\ houtcome' = "indexed"
    /\ hpc' = "idle"
    /\ UNCHANGED <<pdf, chroma, sections, hOthers>>

\* ---------------------------------------------------- the specifications

NoIndexRun == [complete |-> FALSE, count |-> 0]
NoCall == [mismatch |-> FALSE, indexFile |-> NoFile, metadataFile |-> NoFile]

IdleIndex ==
    /\ corpus = [f \in Files |-> 0]
    /\ index = <<>>
    /\ indexFile = NoFile
    /\ metadataFile = NoFile
    /\ all_metadata = <<>>
    /\ todo = <<>>
    /\ ixpc = "off"
    /\ last = "none"
    /\ ixkind = "none"
    /\ textCache = FALSE
    /\ all_texts = {}
    /\ success = FALSE
    /\ ixfaulty = FALSE
    /\ ixprev = NoIndexRun
    /\ call = NoCall

IdleDispatch ==
    /\ dkind = "none"
    /\ nCriteria = 0
    /\ workers = 0
    /\ future = [c \in Criteria |-> NoFuture]
    /\ collected = {}
    /\ results = <<>>
    /\ rows = <<>>
    /\ dpc = "idle"
    /\ sample = "none"
    /\ page_texts = FALSE
    /\ report_cache = "missing"

IdleWatch ==
    /\ fsEvents = 0
    /\ obspc = "idle"
    /\ pollpc = "sleep"
    /\ scanLeft = 0
    /\ elapsed = 0
    /\ searchpc = "idle"
    /\ o3last = "none"

NoPrev == [complete |-> FALSE, count |-> 0]

IdleO2 ==
    /\ o2units = [f \in Standards |-> 0]
    /\ collection = [f \in Standards |-> NoCollection]
    /\ hashCache = [f \in Standards |-> "none"]
    /\ o2pc = "off"
    /\ o2todo = <<>>
    /\ collections = {}
    /\ proc = NoProc
    /\ failed = {}
    /\ faulty = FALSE
    /\ prev = NoPrev
    /\ changed = FALSE

IdleLoad ==
    /\ loader = "none"
    /\ indexOnDisk = NoIndexFile
    /\ metadataOnDisk = FALSE
    /\ faiss_index = NotLoaded
    /\ lpc = "off"
    /\ indexBefore = NoIndexFile
    /\ state_sentences = 0
    /\ monitor_tasks = 0
    /\ documents = 0

IdleRetry ==
    /\ rkind = "none"
    /\ rpc = "off"
    /\ attempt = 0
    /\ batches = 0
    /\ attempts = <<>>
    /\ delays = <<>>
    /\ found_info = {}
    /\ result = NoResult
    /\ exhausted = FALSE

IdleUpdate == newPdf = 0

IdleMonitor ==
    /\ mkind = "none"
    /\ mentry = "none"
    /\ mpc = "off"
    /\ mobs = [d \in Dirs |-> "none"]
    /\ mpoll = [d \in Dirs |-> "none"]
    /\ mlast = [d \in Dirs |-> 0]
    /\ mscan = [d \in Dirs |-> {}]
    /\ mqueue = [d \in Dirs |-> {}]
    /\ owed = [d \in Dirs |-> {}]
    /\ waited = [d \in Dirs |-> [f \in Files |-> 0]]

IdleSearch ==
    /\ searcher = "none"
    /\ entries = NoFile
    /\ sidecar = NoFile
    /\ query_embedding = 0
    /\ top_k = 0
    /\ search_results = <<>>
    /\ spc = "off"

IdleRank ==
    /\ ranker = "none"
    /\ pool = <<>>
    /\ dpool = <<>>
    /\ rag_results = <<>>
    /\ standards_cache = FALSE
    /\ standards_texts = FALSE
    /\ entry_raises = FALSE
    /\ matches = <<>>
    /\ kpc = "off"

IdleOutcome ==
    /\ okind = "none"
    /\ searches = [c \in Criteria |-> <<>>]
    /\ yielded = [c \in Criteria |-> NoEntry]
    /\ not_relevant = {}

IdleReport ==
    /\ reports_dir = {}
    /\ indexed = "none"
    /\ searched = "none"
    /\ cleaned = "none"
    /\ rlast = "off"

IdleWorkflow ==
    /\ wkind = "none"
    /\ wfpc = "off"
    /\ requirements = 0
    /\ wf_results = 0
    /\ results_json = "absent"
    /\ wf_success = "none"
    /\ run_workflow = "none"
    /\ temp_files = {}
    /\ wf_initialized = FALSE

IdleSemaphore ==
    /\ brain = [b \in Categories |-> "off"]
    /\ agent = [b \in Categories |-> [c \in Criteria |-> "none"]]
    /\ OPENAI_SEMAPHORE = [m \in Modules |-> SemaphoreValue]

IdleFingerprint ==
    /\ pdf = 0
    /\ chroma = NoChroma
    /\ hash_pkl = 0
    /\ sections = 0
    /\ hpc = "off"
    /\ houtcome = "none"

IdleExtra == IdleSemaphore /\ IdleFingerprint

IdleQuery == IdleSearch /\ IdleRank /\ IdleOutcome /\ IdleReport /\ IdleWorkflow /\ IdleExtra

\* The standards directory before index_standards has run.
InitIndex ==
    /\ corpus \in [Files -> 0..MaxUnits]
    /\ index = <<>>
    /\ indexFile = NoFile
    /\ metadataFile = NoFile
    /\ all_metadata = <<>>
    /\ todo = <<>>
    /\ ixpc = "idle"
    /\ last = "none"
    /\ ixkind \in {"root", "o1", "parser"}
    /\ textCache = FALSE
    /\ all_texts = {}
    /\ success = FALSE
    /\ ixfaulty = FALSE
    /\ ixprev = NoIndexRun
    /\ call = NoCall
    /\ IdleDispatch /\ IdleWatch /\ IdleO2 /\ IdleLoad /\ IdleRetry /\ IdleMonitor /\ IdleUpdate /\ IdleQuery

NextIndex ==
    \/ IndexStandardsStart
    \/ IndexStandardsCached
    \/ IndexStandardsSkip
    \/ IndexStandardsFile
    \/ IndexStandardsEnd
    \/ ParseRequirementsRefused
    \/ ParseRequirementsFile

SpecIndex == InitIndex /\ [][NextIndex]_vars

\* A dispatcher called with N distinct criteria.
InitDispatch ==
    /\ dkind \in DispatcherKinds
    /\ nCriteria \in 1..MaxCriteria
    /\ workers = 0
    /\ future = [c \in Criteria |-> NoFuture]
    /\ collected = {}
    /\ results = <<>>
    /\ rows = <<>>
    /\ dpc = "start"
    /\ sample = "none"
    /\ page_texts \in (IF dkind = "o1_concurrent_extract" THEN BOOLEAN ELSE {FALSE})
    /\ report_cache \in (IF dkind = "o1_concurrent_extract" THEN {"missing", "complete"}
                         ELSE {"missing"})
    /\ IdleIndex /\ IdleWatch /\ IdleO2 /\ IdleLoad /\ IdleRetry /\ IdleMonitor /\ IdleUpdate /\ IdleQuery

NextDispatch ==
    \/ ConcurrentExtractStart
    \/ O1ConcurrentExtractStart
    \/ SearchReportStart
    \/ \E c \in Criteria : TaskStart(c)
    \/ \E c \in Criteria : ExtractCacheCheck(c)
    \/ \E c \in Criteria : ExtractCacheOpen(c)
    \/ \E c \in Criteria : ExtractCacheDump(c)
    \/ \E c \in Criteria : TaskFinish(c)
    \/ \E c \in Criteria : Collect(c)
    \/ PoolReturn
    \/ PoolRaise
    \/ WorkflowCompile
    \/ BaseBrainStart
    \/ \E c \in Criteria : SubAgentFinish(c)
    \/ GatherRaise
    \/ GatherSubAgents
    \/ \E c \in Criteria : ValidatorFinish(c)
    \/ BaseBrainReturn
    \/ LoopShutdown

SpecDispatch == InitDispatch /\ [][NextDispatch]_vars

\* monitor_folder has started its observer; the loop has set last_check.
InitWatch == IdleWatch /\ IdleIndex /\ IdleDispatch /\ IdleO2 /\ IdleLoad /\ IdleRetry /\ IdleMonitor /\ IdleUpdate /\ IdleQuery

NextWatch ==
    \/ FileChanged
    \/ ObserverDispatch
    \/ ObserverReturn
    \/ PollSleep
    \/ PollScanStart
    \/ PollCallback
    \/ PollCallbackReturn
    \/ PollScanEnd
    \/ SearchStart
    \/ SearchEnd
    \/ O3RebuildIndex
    \/ O3Query

SpecWatch == InitWatch /\ [][NextWatch]_vars

\* A DatabaseBuilder over standards files that were never indexed.
InitO2 ==
    /\ o2units \in [Standards -> 0..MaxUnits]
    /\ collection = [f \in Standards |-> NoCollection]
    /\ hashCache = [f \in Standards |-> "none"]
    /\ o2pc = "idle"
    /\ o2todo = <<>>
    /\ collections = {}
    /\ proc = NoProc
    /\ failed = {}
    /\ faulty = FALSE
    /\ prev = NoPrev
    /\ changed = FALSE
    /\ IdleIndex /\ IdleDispatch /\ IdleWatch /\ IdleLoad /\ IdleRetry /\ IdleMonitor /\ IdleUpdate /\ IdleQuery

NextO2 ==
    \/ \E f \in Standards : O2Modify(f)
    \/ O2RunStart
    \/ O2Reuse
    \/ O2SplitRaises
    \/ O2NoSections
    \/ O2Embed
    \/ O2RunEnd

SpecO2 == InitO2 /\ [][NextO2]_vars

\* Either corpus indexer, run again and again over its source files.
InitReindex == InitO2 \/ InitIndex

NextReindex ==
    \/ \E f \in Standards : O2Modify(f)
    \/ O2RunStart
    \/ O2Reuse
    \/ O2SplitRaises
    \/ O2NoSections
    \/ O2Embed
    \/ O2RunEnd
    \/ IndexStandardsStart
    \/ IndexStandardsCached
    \/ IndexStandardsSkip
    \/ IndexStandardsFile
    \/ IndexStandardsEnd
    \/ ParseRequirementsRefused
    \/ ParseRequirementsFile

SpecReindex == InitReindex /\ [][NextReindex]_vars

\* The index files a loader may find: none, one that does not parse, or an
\* index of some dimension holding some vectors.
IndexFilesFound ==
    {NoIndexFile, [exists |-> TRUE, parseable |-> FALSE, d |-> 0, ntotal |-> 0]}
        \cup {IndexFile(d, n) : d \in Dimensions, n \in 0..MaxUnits}

\* A process about to load its index: the import of o3/config.py, or
\* StandardsManager.initialize.
InitLoad ==
    /\ loader \in {"config", "standards_manager"}
    /\ indexOnDisk \in IndexFilesFound
    /\ metadataOnDisk \in BOOLEAN
    /\ loader = "config" => ~metadataOnDisk
    /\ faiss_index = NotLoaded
    /\ lpc = "start"
    /\ indexBefore = indexOnDisk
    /\ state_sentences = 0
    /\ monitor_tasks = 0
    /\ documents = 0
    /\ IdleIndex /\ IdleDispatch /\ IdleWatch /\ IdleO2 /\ IdleRetry /\ IdleMonitor /\ IdleUpdate /\ IdleQuery

NextLoad ==
    \/ ConfigLoad
    \/ SMInitIndex
    \/ SMLoadMetadata
    \/ SMRebuildIndex
    \/ SuperBrain
    \/ SMCreateMonitorTask
    \/ SMMonitorRebuild

SpecLoad == InitLoad /\ [][NextLoad]_vars

\* One criterion on its way through sub_agent and validator_agent, or one
\* classification.
InitRetry ==
    /\ rkind \in RetryKinds
    /\ rpc = (IF rkind \in Classifiers THEN "call" ELSE "start")
    /\ attempt = 0
    /\ batches = 0
    /\ attempts = <<>>
    /\ delays = <<>>
    /\ found_info \in (IF rkind = "validator_agent"
                        THEN {{"info"}, {"info", "error"}, {"error"}, {"no_data"}}
                        ELSE {{}})
    /\ result = NoResult
    /\ exhausted = ("error" \in found_info)
    /\ IdleIndex /\ IdleDispatch /\ IdleWatch /\ IdleO2 /\ IdleLoad /\ IdleMonitor /\ IdleUpdate /\ IdleQuery

NextRetry ==
    \/ SubAgentStart
    \/ SubAgentAttempt
    \/ BackoffSleep
    \/ SubAgentNextBatch
    \/ BaseBrainValidate
    \/ ValidatorStart
    \/ ValidatorAttempt
    \/ ValidatorReturn
    \/ BaseBrainRecord
    \/ ClassifyAttempt

SpecRetry == InitRetry /\ [][NextRetry]_vars

\* update_standards with index_standards as its callback.
InitUpdate == InitIndex /\ ixkind \in {"root", "o1"}

NextUpdate ==
    \/ IndexStandardsStart
    \/ IndexStandardsCached
    \/ IndexStandardsSkip
    \/ IndexStandardsFile
    \/ IndexStandardsEnd
    \/ \E f \in Files : AddStandard(f)

SpecUpdate == InitUpdate /\ [][NextUpdate]_vars

\* An entry function of either copy is about to start its monitors.
InitMonitor ==
    /\ mkind \in {"root", "o1"}
    /\ mentry \in Entries
    /\ mpc = "start"
    /\ mobs = [d \in Dirs |-> "none"]
    /\ mpoll = [d \in Dirs |-> "none"]
    /\ mlast = [d \in Dirs |-> 0]
    /\ mscan = [d \in Dirs |-> {}]
    /\ mqueue = [d \in Dirs |-> {}]
    /\ owed = [d \in Dirs |-> {}]
    /\ waited = [d \in Dirs |-> [f \in Files |-> 0]]
    /\ IdleIndex /\ IdleDispatch /\ IdleWatch /\ IdleO2 /\ IdleLoad /\ IdleRetry /\ IdleUpdate /\ IdleQuery

NextMonitor ==
    \/ MonitorStart
    \/ \E d \in Dirs, f \in Files : MonitoredFileChange(d, f)
    \/ \E d \in Dirs, f \in Files : HandlerCallback(d, f)
    \/ \E d \in Dirs : HandlerCallbackEnd(d)
    \/ Second
    \/ \E d \in Dirs : ScanStart(d)
    \/ \E d \in Dirs, f \in Files : ScanCallback(d, f)
    \/ \E d \in Dirs : ScanEnd(d)

SpecMonitor == InitMonitor /\ [][NextMonitor]_vars

\* The threads are scheduled: an observer with a queued event gets to its
\* handler, a callback in progress comes to its end, the clock advances and a
\* polling loop carries on.
FairMonitor ==
    /\ \A d \in Dirs, f \in Files : SF_vars(HandlerCallback(d, f))
    /\ \A d \in Dirs : WF_vars(HandlerCallbackEnd(d))
    /\ WF_vars(MonitorStart)
    /\ WF_vars(Second)
    /\ \A d \in Dirs : WF_vars(ScanStart(d))
    /\ \A d \in Dirs, f \in Files : WF_vars(ScanCallback(d, f))
    /\ \A d \in Dirs : WF_vars(ScanEnd(d))

SpecMonitorFair == SpecMonitor /\ FairMonitor

\* Every place of the repository that starts a directory watcher: the
\* monitors of the root package and of o1, or the o3 process with its
\* StandardsManager tasks.
InitWatchers == InitMonitor \/ InitLoad

NextWatchers == NextMonitor \/ NextLoad

SpecWatchers == InitWatchers /\ [][NextWatchers]_vars

\* The index files a search may find.  An index in the hands of
\* search_index or of the StandardsManager is loaded, and the manager's
\* metadata is a list in memory; the sidecar on disk may be missing, and may
\* hold fewer or more records than the index holds vectors.
SearchedIndexes ==
    {NoFile} \cup {FileOf(v) : v \in UNION {[1..n -> Points] : n \in 0..MaxEntries}}

Sidecars == {NoFile} \cup {FileOf(RecordsOf(m)) : m \in 0..(MaxEntries + 1)}

InitSearch ==
    /\ searcher \in SearcherKinds
    /\ entries \in SearchedIndexes
    /\ sidecar \in Sidecars
    /\ searcher \in {"search_index", "query"} => entries.exists
    /\ searcher = "query" => sidecar.exists
    /\ query_embedding \in Points \cup {NoEmbedding}
    /\ searcher # "search_standards" => query_embedding # NoEmbedding
    /\ top_k \in 1..MaxTopK
    /\ search_results = <<>>
    /\ spc = "start"
    /\ IdleIndex /\ IdleDispatch /\ IdleWatch /\ IdleO2 /\ IdleLoad /\ IdleRetry
    /\ IdleMonitor /\ IdleUpdate /\ IdleRank /\ IdleOutcome /\ IdleReport /\ IdleWorkflow
    /\ IdleExtra

NextSearch ==
    \/ SearchIndexCall
    \/ SearchStandardsCall
    \/ StandardsManagerQuery

SpecSearch == InitSearch /\ [][NextSearch]_vars

\* What one page or sentence holds with respect to a text sought in it: its
\* cosine similarity, whether it holds the text verbatim, whether a value
\* follows the text, and the tokens and terms shared.
Candidates(kind) ==
    CASE kind = "extract_data"  ->
           [sim : Sims, exact : BOOLEAN, regex : BOOLEAN, count : {0, 1}]
      [] kind = "validate_data" ->
           [sim : Sims, exact : BOOLEAN, regex : {FALSE}, count : Counts]
      [] OTHER                  ->
           [sim : Sims, exact : {FALSE}, regex : {FALSE}, count : {0}]

Pools(kind) == UNION {[1..n -> Candidates(kind)] : n \in 0..MaxCands}

\* The pages as the description finds them.
DescriptionViews(n) ==
    {<<>>} \cup [1..n -> [sim : {20, 90}, exact : BOOLEAN, regex : {TRUE}, count : {0}]]

\* The lists an index search may return over n entries: positions, none twice.
HitLists(n) ==
    UNION {{h \in [1..m -> 1..n] : \A i, j \in 1..m : i # j => h[i] # h[j]} :
             m \in 0..n}

\* A scorer called for one criterion.
InitRank ==
    /\ ranker \in RankerKinds
    /\ pool \in Pools(ranker)
    /\ dpool \in (IF ranker = "extract_data" THEN DescriptionViews(Len(pool)) ELSE {<<>>})
    /\ rag_results \in (IF ranker = "sub_agent" THEN {<<>>} ELSE HitLists(Len(pool)))
    /\ standards_cache \in (IF ranker = "validate_data" THEN BOOLEAN ELSE {FALSE})
    /\ standards_texts \in (IF ranker = "validate_data" THEN BOOLEAN ELSE {FALSE})
    /\ entry_raises \in (IF ranker = "validate_data" /\ standards_cache
                         THEN BOOLEAN ELSE {FALSE})
    /\ matches = <<>>
    /\ kpc = "start"
    /\ IdleIndex /\ IdleDispatch /\ IdleWatch /\ IdleO2 /\ IdleLoad /\ IdleRetry
    /\ IdleMonitor /\ IdleUpdate /\ IdleSearch /\ IdleOutcome /\ IdleReport /\ IdleWorkflow
    /\ IdleExtra

NextRank ==
    \/ ExtractDataCall
    \/ ValidateDataCall
    \/ SubAgentSelect

SpecRank == InitRank /\ [][NextRank]_vars

\* The searches made for one criterion: one by extract_data; a second by
\* retry_extraction where the first gave no matches; one by sub_agent, or
\* none where the criterion never reached an agent.
SearchesOf(kind) ==
    CASE kind = "extract_data"     -> {<<r>> : r \in SearchResults}
      [] kind = "retry_extraction" ->
           {<<"matches">>}
             \cup {<<r1, r2>> : r1 \in SearchResults \ {"matches"}, r2 \in SearchResults}
      [] OTHER -> {<<>>} \cup {<<r>> : r \in SearchResults \ {"not_run"}}

InitOutcome ==
    /\ okind \in OutcomeKinds
    /\ searches \in [Criteria -> SearchesOf(okind)]
    /\ yielded = [c \in Criteria |-> NoEntry]
    /\ not_relevant \in (IF okind = "generate_report"
                         THEN {N \in SUBSET Criteria : \A c \in N : searches[c] # <<>>}
                         ELSE {{}})
    /\ IdleIndex /\ IdleDispatch /\ IdleWatch /\ IdleO2 /\ IdleLoad /\ IdleRetry
    /\ IdleMonitor /\ IdleUpdate /\ IdleSearch /\ IdleRank /\ IdleReport /\ IdleWorkflow
    /\ IdleExtra

NextOutcome ==
    \/ \E c \in Criteria : ExtractDataReturn(c)
    \/ \E c \in Criteria : RetryExtraction(c)
    \/ \E c \in Criteria : GenerateReportRow(c)

SpecOutcome == InitOutcome /\ [][NextOutcome]_vars

\* data/reports with what earlier runs left there, before any of the three
\* functions is called.
InitReport ==
    /\ reports_dir \in SUBSET ReportFiles
    /\ indexed = "none"
    /\ searched = "none"
    /\ cleaned = "none"
    /\ rlast = "none"
    /\ IdleIndex /\ IdleDispatch /\ IdleWatch /\ IdleO2 /\ IdleLoad /\ IdleRetry
    /\ IdleMonitor /\ IdleUpdate /\ IdleSearch /\ IdleRank /\ IdleOutcome /\ IdleWorkflow
    /\ IdleExtra

NextReport ==
    \/ IndexReport
    \/ SearchReportOpen
    \/ CleanReportIndex

SpecReport == InitReport /\ [][NextReport]_vars

\* A workflow about to run over some requirements, with or without a
\* results.json of an earlier run; o1's is called by run_workflow or directly.
InitWorkflow ==
    /\ wkind \in WorkflowKinds
    /\ wfpc \in (IF wkind = "o1" THEN {"caller", "start"} ELSE {"start"})
    /\ requirements \in 0..MaxCriteria
    /\ wf_results = 0
    /\ results_json \in {"absent", "stale"}
    /\ wf_success = "none"
    /\ run_workflow = "none"
    /\ temp_files \in (IF wkind = "root" THEN {{}, TempFiles} ELSE {{}})
    /\ wf_initialized = FALSE
    /\ IdleIndex /\ IdleDispatch /\ IdleWatch /\ IdleO2 /\ IdleLoad /\ IdleRetry
    /\ IdleMonitor /\ IdleUpdate /\ IdleSearch /\ IdleRank /\ IdleOutcome /\ IdleReport
    /\ IdleExtra

NextWorkflow ==
    \/ RunWorkflowStart
    \/ RootWorkflowStart
    \/ O1WorkflowStart
    \/ WorkflowRequirement
    \/ WorkflowWrite
    \/ RunWorkflowEnd

SpecWorkflow == InitWorkflow /\ [][NextWorkflow]_vars

\* One run of main over a document: the semaphores as the modules created
\* them, no task yet.
InitSemaphore ==
    /\ IdleSemaphore
    /\ IdleIndex /\ IdleDispatch /\ IdleWatch /\ IdleO2 /\ IdleLoad /\ IdleRetry
    /\ IdleMonitor /\ IdleUpdate /\ IdleSearch /\ IdleRank /\ IdleOutcome /\ IdleReport
    /\ IdleWorkflow /\ IdleFingerprint

NextSemaphore ==
    \/ BaseBrainTasks
    \/ \E b \in Categories, c \in Criteria : SemaphoreAcquire(b, c)
    \/ \E b \in Categories, c \in Criteria : SemaphoreRelease(b, c)
    \/ \E b \in Categories, c \in Criteria : AgentSleepEnd(b, c)
    \/ \E b \in Categories, c \in Criteria : AgentReturnsEarly(b, c)
    \/ \E b \in Categories : BaseBrainValidators(b)
    \/ \E b \in Categories : BaseBrainEnd(b)

SpecSemaphore == InitSemaphore /\ [][NextSemaphore]_vars

\* A standards file never processed: no collection, no cached hash.
InitFingerprint ==
    /\ pdf = 1
    /\ chroma = NoChroma
    /\ hash_pkl = 0
    /\ sections = 0
    /\ hpc = "idle"
    /\ houtcome = "none"
    /\ IdleIndex /\ IdleDispatch /\ IdleWatch /\ IdleO2 /\ IdleLoad /\ IdleRetry
    /\ IdleMonitor /\ IdleUpdate /\ IdleSearch /\ IdleRank /\ IdleOutcome /\ IdleReport
    /\ IdleWorkflow /\ IdleSemaphore

NextFingerprint ==
    \/ PdfRewritten
    \/ CheckExistingCollection
    \/ SplitStandardsPdf
    \/ EmbedSections
    \/ CacheFileHash

SpecFingerprint == InitFingerprint /\ [][NextFingerprint]_vars

\* ------------------------------------------------------------- the claims

\* C1: after every call of add_to_index the persisted index holds as many
\* vectors as the metadata sidecar holds records.
C1_ParallelAfterAdd ==
    last \in {"add_to_index", "add_to_index_raised"} =>
        Len(indexFile.content) = Len(metadataFile.content)

\* C11: a call of add_to_index with a number of embeddings different from
\* the number of metadata records raises and leaves index.faiss and the
\* metadata sidecar as they were at entry.
C11_MismatchRejected ==
    (last \in {"add_to_index", "add_to_index_raised"} /\ call.mismatch) =>
        /\ last = "add_to_index_raised"
        /\ indexFile = call.indexFile
        /\ metadataFile = call.metadataFile

\* C2: after successful calls of add_to_index, for every id i the record at
\* position i of the sidecar is the record supplied together with vector i.
C2_RecordsAlignedWithVectors ==
    last = "add_to_index" =>
        \A i \in 1..Len(indexFile.content) :
            /\ i <= Len(metadataFile.content)
            /\ metadataFile.content[i].unit = indexFile.content[i].unit

\* C7: the hash of a standards file is cached only when every paragraph of
\* the file was embedded and stored without error in that run.
C7_FingerprintOnlyWhenAllStored ==
    proc.cached => proc.failed = 0 /\ proc.stored = o2units[proc.file]

\* C8: a source nothing of which a run indexed is left without a skip marker
\* (a collection whose cached hash is the file's), and no later run reuses a
\* collection for it before it has been processed again.
C8_FailedSourceRetried ==
    /\ \A f \in failed : ~check_existing_collection(f, FALSE)
    /\ proc.outcome = "reused" => proc.file \notin failed

\* C9: once a run has found that a file yields no paragraph, the file's hash
\* is cached and the file counts as processed, so that the next run skips it.
C9_ZeroUnitsFingerprinted ==
    proc.outcome = "no_sections" =>
        /\ hashCache[proc.file] = get_file_hash(proc.file)
        /\ proc.file \in collections

\* The latest run of either indexer has ended.
O2RunEnded == o2pc \in {"returned", "raised"}
IndexRunEnded == ixkind = "o1" /\ ixpc \in {"done", "raised"}

Unusable(file) == file.exists /\ (~file.parseable \/ file.d # DIMENSION)

\* C10: loading over an index file that cannot be parsed or has another
\* dimension ends with an error raised to the caller, and the file is left
\* as it was.
C10_UnusableIndexFailsLoad ==
    (Unusable(indexBefore) /\ lpc \in {"loaded", "raised"}) =>
        lpc = "raised" /\ indexOnDisk = indexBefore

\* What the caller of the dispatcher holds once the call has ended: the
\* returned list, or the exception that left the call.
CallerGets ==
    CASE dpc \in {"refused", "returned"} -> "list"
      [] dpc \in {"pool_error", "raised"} -> "exception"
      [] OTHER -> "nothing"

\* C12: when the resource sample of a dispatch is below the floor, no search
\* is started and the caller gets a signal that is not a list of results.
C12_RefusalSignalled ==
    sample = "exceeded" =>
        /\ \A c \in Criteria : future[c] = NoFuture
        /\ CallerGets # "list"

\* C13: at every moment of a dispatch the searches in execution number at
\* most the worker count derived from the dispatch's resource sample.
C13_RunningWithinWorkers ==
    sample # "none" => Cardinality(Running) <= workers

\* The searches that have yet to use, or are using, the report text cache.
CacheUsers == {c \in Dispatched : future[c].st \in {"check", "extracting", "writing"}}

\* C14: no search writes state shared with a concurrently running search:
\* while one search writes the report text cache, no other search in execution
\* reads or writes that file.
C14_NoSharedWrite ==
    \A c \in Dispatched :
        future[c].st = "writing" => CacheUsers \subseteq {c}

\* The dispatch has ended and was not refused for lack of resources.
DispatchEnded == dpc \in {"returned", "raised"}

\* C3: a dispatch over N distinct criteria returns exactly N results, each
\* with a criterion of its own that is one of the input criteria, whichever
\* criterion searches failed.
C3_DispatchComplete ==
    DispatchEnded =>
        /\ dpc = "returned"
        /\ Len(results) = nCriteria
        /\ \A i \in 1..Len(results) : results[i].criterion \in Dispatched
        /\ \A i, j \in 1..Len(results) :
               results[i].criterion = results[j].criterion => i = j

\* C5: when the search for one criterion raises, the searches for the other
\* criteria still run to completion and their results reach the caller.
C5_FaultIsolation ==
    (DispatchEnded /\ \E c \in Dispatched : future[c].failed) =>
        \A c \in Dispatched :
            ~future[c].failed =>
                /\ future[c].st = "done"
                /\ \E i \in 1..Len(results) : results[i].criterion = c

\* C4: no two operations that write the same index files run at the same
\* time, and none runs while a search is reading that index.
C4_SingleWriter ==
    /\ Cardinality(IndexWriters) <= 1
    /\ IndexWriters # {} => IndexReaders = {}

\* C15: each OpenAI call of sub_agent, validator_agent and the classifiers is
\* attempted at most three times; an attempt that was followed by another one
\* had failed (so none follows a success); a sleep lies between consecutive
\* attempts, and each sleep is a fixed multiple (2 to 4 times) of the one before.
C15_BoundedRetry ==
    /\ Len(attempts) <= 3
    /\ \A i \in 1..(Len(attempts) - 1) : ~attempts[i]
    /\ Len(delays) >= Len(attempts) - 1
    /\ \E b \in 2..4 : \A i \in 1..(Len(delays) - 1) : delays[i + 1] = b * delays[i]

\* The third attempt of a call succeeded after two failures and two sleeps.
C15_Witness ==
    /\ Len(attempts) = 3 /\ attempts[3]
    /\ Len(delays) = 2 /\ delays[2] > delays[1]

\* The outcomes that say a criterion failed or has no result.
FailedOutcomes == {"error", "no_data", "validation_error", "not_applicable"}

\* C16: a criterion one of whose embedding or OpenAI calls failed in every
\* attempt ends recorded with a failed / no-result outcome, never with an
\* exception leaving the coroutine.
C16_ExhaustedRecorded ==
    (exhausted /\ rpc \in {"recorded", "raised"}) =>
        /\ rpc = "recorded"
        /\ result.found_info \cap FailedOutcomes # {}

\* C17: every creation or modification of a file in a watched directory,
\* later changes of the same file included, leads to a call of the watcher's
\* callback with that file's path.
C17_ChangeReachesCallback ==
    \A d \in Dirs, f \in Files :
        (mobs[d] # "none" /\ f \in owed[d]) ~> (f \notin owed[d])

\* C18: once watch_files is running, the standards and the requirements
\* directory are under watch at the same time.
C18_BothWatched ==
    (mentry = "watch_files" /\ mpc = "running") => \A d \in Dirs : mobs[d] # "none"

\* C19: a change of a watched directory that came without an event is passed
\* to the callback by the periodic scan within one polling interval.
C19_ScanWithinInterval ==
    \A d \in Dirs, f \in Files : mobs[d] # "none" => waited[d][f] <= UpdateInterval

\* The persisted metadata has entries whose document_name is f.
Indexed(f) ==
    \E i \in 1..Len(metadataFile.content) : metadataFile.content[i].document_name = f

\* C20: a PDF added while update_standards runs gets indexed: once an
\* index_standards call made after the file was added has returned without
\* meeting an error, the persisted metadata has entries of that file, whether
\* or not the index files existed when the file was added.
C20_NewPdfIndexed ==
    (newPdf # 0 /\ ixpc = "done" /\ ~ixfaulty) => Indexed(newPdf)

\* The call of the searcher has ended, by a return or by an exception.
SearchEnded == spc \in {"returned", "raised"}

\* The sidecar holds one record per vector of the index.
Aligned == sidecar.exists /\ Len(sidecar.content) = Len(entries.content)

\* C21: a search of an index that holds no entries returns the empty list
\* and raises nothing, whatever the query and k.
C21_EmptyIndexEmptyResult ==
    (SearchEnded /\ entries.exists /\ entries.content = <<>>)
        => /\ spc = "returned"
           /\ search_results = <<>>

\* The records a result list names, and whether it names each once.
Returned_Records == {search_results[i].record : i \in 1..Len(search_results)}
NoRepeat ==
    \A i, j \in 1..Len(search_results) :
        i # j => search_results[i].record # search_results[j].record

\* C22: a search with k above the number n of entries returns exactly the n
\* indexed entries, each once.  Stated for an index whose sidecar holds one
\* record per vector and a query that embeds.
C22_LargeKReturnsAll ==
    (SearchEnded /\ Aligned /\ query_embedding # NoEmbedding
        /\ top_k > Len(entries.content))
        => /\ spc = "returned"
           /\ Len(search_results) = Len(entries.content)
           /\ Returned_Records = {i - 1 : i \in 1..Len(entries.content)}
           /\ NoRepeat

\* C23: no match returned for a criterion has a score below the threshold
\* of the function that returned it.
C23_AboveThreshold ==
    kpc = "returned"
        => \A i \in 1..Len(matches) : matches[i].score >= similarity_threshold(ranker)

\* The match names a page or sentence that holds the criterion verbatim.
Verbatim(m) == pool[m.id].exact

\* C24: every returned candidate that holds the criterion text verbatim
\* stands ahead of every returned candidate that does not.
C24_VerbatimFirst ==
    (kpc = "returned" /\ ranker \in {"extract_data", "validate_data"})
        => \A i, j \in 1..Len(matches) :
              (Verbatim(matches[j]) /\ ~Verbatim(matches[i])) => j < i

\* C25: the scores of a returned list never rise from one element to the next.
C25_ScoresNonIncreasing ==
    kpc = "returned"
        => \A i \in 1..(Len(matches) - 1) : matches[i].score >= matches[i + 1].score

\* C26: of two returned candidates with one score, the one with the smaller
\* index id stands first.
C26_TieByIndexId ==
    (kpc = "returned" /\ ranker \in {"sub_agent", "validate_data"})
        => \A i, j \in 1..Len(matches) :
              (i < j /\ matches[i].score = matches[j].score)
                  => matches[i].id <= matches[j].id

\* The run leaves the source at the head of its list and goes on with the
\* sources after it.
IndexRunGoesOn == ixpc' = "loop" /\ todo' = Tail(todo)
O2RunGoesOn == o2pc' = "loop" /\ o2todo' = Tail(o2todo)

\* C27: a step in which the text extraction of one source fails skips that
\* source and leaves the indexing run going over the remaining sources; it
\* does not end the run.
C27_ExtractionFailureSkipped ==
    [][/\ IndexStandardsSkip => IndexRunGoesOn
       /\ O2SplitRaises => O2RunGoesOn]_vars

\* What became of the criterion's search: the last search made for it, or
\* that it was never processed.
Fate(c) ==
    IF searches[c] = <<>> \/ c \in not_relevant THEN "not_processed"
    ELSE searches[c][Len(searches[c])]

\* C28: the result of a criterion whose search ran and found no match
\* differs from the result of every criterion whose search failed, was not
\* run, or that was never processed.
C28_EmptyMatchDistinct ==
    \A c1, c2 \in Criteria :
        (/\ yielded[c1] # NoEntry /\ yielded[c2] # NoEntry
         /\ Fate(c1) = "no_match"
         /\ Fate(c2) \in {"failed", "not_run", "not_processed"})
            => yielded[c1] # yielded[c2]

\* C29: when index_report has returned True, the two files search_report
\* reads and clean_report_index removes are present in data/reports.
C29_IndexReportLeavesTempFiles ==
    (rlast = "index_report" /\ indexed = "True")
        => /\ {SearcherPaths.index, SearcherPaths.metadata} \subseteq reports_dir
           /\ {CleanerPaths.index, CleanerPaths.metadata} \subseteq reports_dir

\* C30: when execute_workflow has returned, its value is truthy exactly
\* where this run wrote results.json in full, so that a caller testing the
\* value takes a completed workflow for a success.
C30_ReturnTellsSuccess ==
    (wfpc \in {"returned", "done"} /\ wf_success # "none")
        => (Truthy(wf_success) <=> results_json = "written")

\* C31: in every row the root execute_workflow writes to results.json, the
\* extracted sentences and the standard info are those of the row's own
\* criterion, in whatever order the concurrent extractions completed.
C31_RowOfOneCriterion ==
    dpc = "workflow_true" =>
        \A i \in 1..Len(rows) :
            /\ rows[i].extracted_sentences = rows[i].criterion
            /\ rows[i].standard_info = rows[i].criterion

\* C32: when the root execute_workflow returns True, results.json holds
\* exactly one row for every requirement that was fetched.
C32_OneRowPerRequirement ==
    dpc = "workflow_true" =>
        /\ Len(rows) = nCriteria
        /\ \A c \in 1..nCriteria :
              Cardinality({i \in 1..Len(rows) : rows[i].criterion = c}) = 1

\* C38: whenever concurrent_extract (root or o1) creates its thread pool,
\* the max_workers it passes is an integer from 1 to 10, whatever the
\* resource sample was.
C38_WorkerCountInRange ==
    (dkind \in ExtractKinds /\ dpc \notin {"start", "refused"})
        => workers \in 1..MaxSubAgents

C34_ReusedCollectionOfHashedContent ==
    houtcome = "reused" =>
        \A i \in ParaIds : chroma.docs[i] # 0 => chroma.docs[i] = hash_pkl

\* C36: whenever the root execute_workflow returns after initialize_system
\* has succeeded (with True, from its exception handler, or early, as where
\* no requirement was found), the temporary report index files are gone.
C36_TempIndexRemoved ==
    (wkind = "root" /\ wfpc = "returned" /\ wf_initialized) => temp_files = {}

\* C37: after super_brain has processed a document, the global FAISS index
\* holds that document's sentence embeddings and no other vector: it has
\* as many vectors as state.sentences has sentences, none left from an
\* earlier document or an earlier run.
C37_IndexOfThisDocument ==
    (loader = "config" /\ lpc = "processed" /\ state_sentences > 0)
        => faiss_index.ntotal = state_sentences

\* C39: after every StandardsManager._rebuild_index that returned, the
\* index file on disk holds as many chunks as the index in memory (the
\* chunks of the PDFs now in the directory, none where no PDF is left; a
\* missing file holds none), so that a later start-up loads what the
\* process holds.
C39_PersistedIsRebuilt ==
    (loader = "standards_manager" /\ lpc = "rebuilt")
        => (IF indexOnDisk.exists THEN indexOnDisk.ntotal ELSE 0) = faiss_index.ntotal

\* C35: the directory watchers active at one time (watchdog observers of
\* the monitored directories, monitor() tasks of the one directory o3
\* watches) are never more than the directories watched, whatever the
\* number of change events handled or documents processed.
C35_WatchersBounded ==
    /\ Observers("standards") + Observers("requirements") <= Cardinality(Dirs)
    /\ monitor_tasks <= 1

====
